---------------------------- MODULE Spec2Model ----------------------------
(***************************************************************************)
(* Model of the tracker data processor (services/tracker_processor.py):    *)
(* TrackerDataProcessor.process as a staged batch pipeline                 *)
(*   read rows -> transform -> timeline engine + derived fields -> grade,  *)
(* and of the announcement scheduler (bot/client.py,                       *)
(* services/scheduler_service.py): the loop that wakes at each minute and  *)
(* sends the schedules that are due.                                       *)
(*                                                                         *)
(* Text values are sequences of tokens; Python's substring test            *)
(* `x in value` is containment of a contiguous token sequence, str.lower   *)
(* and str.strip act token-wise, int() accepts a single numeral token.     *)
(***************************************************************************)
EXTENDS Integers, Sequences, FiniteSets, TLC

VARIABLES
    input_class,   \* which bounded family of input rows this run draws from
    fieldnames,    \* csv_reader.fieldnames: the header spelling of each column
    master_data,   \* options.get('master_data'): the roster table, or None
    raw_rows,      \* process: raw_rows = list(csv_reader)
    discord_lookup,\* process: discord_lookup (participant id -> handle)
    students,      \* process: students (list of StudentRecord)
    workbook,      \* process: wb, the tabs written so far, or None
    pc,            \* position of process(): "read", "transformed", "derived",
                   \* "graded", "done", "failed"
    result,        \* the ProcessingResult returned, or NoResult while running
    clock,         \* datetime.now(timezone.utc), in whole seconds
    scheduled_messages, \* bot.scheduled_messages: schedule_id -> schedule
    loop,          \* check_scheduled_messages: where the loop is, the tick
                   \* time `now` and the schedules of the tick still to check
    sent,          \* the announcements sent: schedule, tick time, due time
    issued,        \* how many schedule ids uuid4 has given out
    last_calculation \* the latest call of calculate_next_run and its result

tracker_vars == <<input_class, fieldnames, master_data, raw_rows, discord_lookup,
                  students, workbook, pc, result>>

scheduler_vars == <<clock, scheduled_messages, loop, sent, issued, last_calculation>>

vars == <<tracker_vars, scheduler_vars>>

---------------------------------------------------------------------------
(* Bounds of the model.                                                    *)

\* Largest number of data rows of one input table.
MaxRows == 3

\* Largest week number of the timeline input families.
MaxWeek == 3

\* Largest number of times the scheduler loop wakes up in one run.
MaxTicks == 2

\* Largest number of schedules that exist in one run.
MaxSchedules == 2

\* The program length in weeks (weeks_remaining = max(0, 8 - week)).
ProgramWeeks == 8

---------------------------------------------------------------------------
(* Text helpers (Python str operations on token sequences).                *)

Max(a, b) == IF a >= b THEN a ELSE b

Min(a, b) == IF a <= b THEN a ELSE b

\* Optional values: None is the empty set, a value v is {v}.
None == {}

Some(v) == {v}

TheValue(opt) == CHOOSE v \in opt : TRUE

\* Decimal numerals accepted by int().
Numerals == <<"0", "1", "2", "3", "4", "5", "6", "7", "8", "9">>

Numeral(n) == Numerals[n + 1]

IsNumeral(tok) == \E n \in 0..9 : Numerals[n + 1] = tok

IntOf(tok) == CHOOSE n \in 0..9 : Numerals[n + 1] = tok

IsSpace(tok) == tok = " "

\* pattern in value  (pattern a non-empty token sequence)
Contains(value, pattern) ==
    \E i \in 1..(Len(value) - Len(pattern) + 1) :
        \A j \in 1..Len(pattern) : value[i + j - 1] = pattern[j]

\* str.lower(), token by token
LowerToken(tok) ==
    CASE tok = "Phase " -> "phase "
      [] tok = "Selection" -> "selection"
      [] tok = "Reproduction" -> "reproduction"
      [] tok = "Implementation" -> "implementation"
      [] tok = "Submission" -> "submission"
      [] tok = "Yes" -> "yes"
      [] tok = "YES" -> "yes"
      [] tok = "No" -> "no"
      [] tok = "TRUE" -> "true"
      [] tok = "True" -> "true"
      [] tok = "FALSE" -> "false"
      [] tok = "TBD" -> "tbd"
      [] tok = "What's your Member ID" -> "what's your member id"
      [] tok = "What is your Discord username" -> "what is your discord username"
      [] tok = "What is your Discord Username" -> "what is your discord username"
      [] tok = "Discord Username" -> "discord username"
      [] tok = "Discord" -> "discord"
      [] tok = "DISCORD" -> "discord"
      [] tok = "Member ID" -> "member id"
      [] tok = "MEMBER ID" -> "member id"
      [] tok = "MemberID" -> "memberid"
      [] OTHER -> tok

Lower(value) == [i \in 1..Len(value) |-> LowerToken(value[i])]

RECURSIVE LStrip(_)
LStrip(value) ==
    IF value # <<>> /\ IsSpace(Head(value)) THEN LStrip(Tail(value)) ELSE value

RECURSIVE RStrip(_)
RStrip(value) ==
    IF value # <<>> /\ IsSpace(value[Len(value)])
    THEN RStrip(SubSeq(value, 1, Len(value) - 1))
    ELSE value

\* str.strip()
Strip(value) == RStrip(LStrip(value))

\* str.replace(tok, ""): drop every occurrence of one token
RemoveToken(value, tok) == SelectSeq(value, LAMBDA t : t # tok)

\* str.split(): the whitespace-separated words
Split(value) == SelectSeq(value, LAMBDA t : ~IsSpace(t))

\* int(text): Some(n) for a single numeral, None when int() raises ValueError
ParseInt(value) ==
    IF Len(value) = 1 /\ IsNumeral(value[1]) THEN Some(IntOf(value[1])) ELSE None

\* the truthy spellings of the boolean-like columns
IsTrueValue(value) ==
    Lower(Strip(value)) \in {<<"1">>, <<"1.0">>, <<"yes">>, <<"true">>}

---------------------------------------------------------------------------
(* StudentRecord and record transformation.                                *)

ON_TRACK == "ON TRACK"

FLAGGED == "FLAGGED"

AT_RISK == "AT RISK"

\* Variant of the dataclass defaults with weeks_in_phase starting at 0, like
\* the other counters.
StudentRecord_weeks_from_zero ==
    [ member_id |-> <<>>, discord_username |-> <<>>,
      week |-> 0, wed_submitted |-> FALSE, sun_submitted |-> FALSE,
      submission_count_cumulative |-> 0,
      current_phase |-> <<>>, weeks_in_phase |-> 0, contribution_num |-> 1,
      contribution_start_week |-> 1, weeks_on_contribution |-> 1,
      weeks_remaining |-> 8, timeline_type |-> "Standard",
      phase_changed_this_week |-> FALSE,
      issue_url |-> <<>>, mr_url |-> <<>>,
      why_chosen_complete |-> FALSE, reproduction_complete |-> FALSE,
      solution_complete |-> FALSE, implementation_complete |-> FALSE,
      testing_complete |-> FALSE, feedback_complete |-> FALSE,
      deliverables_expected |-> 0, deliverables_complete |-> 0,
      days_since_commit |-> 0,
      blocked |-> FALSE, blocker_desc |-> <<>>,
      issue_url_previous_week |-> <<>>, issue_changed |-> FALSE,
      issue_change_week |-> 0, issue_swap_detected |-> FALSE,
      new_contribution_detected |-> FALSE,
      grade_status |-> "ON TRACK", intervention_type |-> "",
      consecutive_misses |-> 0,
      _illogical_phase_change |-> {}, _missing_previous_phase |-> {} ]

\* Variant of the dataclass defaults in which a fresh record counts eight days
\* since the last commit.
StudentRecord_stale_commit ==
    [StudentRecord_weeks_from_zero EXCEPT !.weeks_in_phase = 1,
                                          !.days_since_commit = 8]

\* StudentRecord(): the dataclass defaults.  The private attributes
\* _illogical_phase_change and _missing_previous_phase do not exist on a fresh
\* record (None here); they are read with getattr(..., False).
StudentRecord ==
    [ member_id |-> <<>>, discord_username |-> <<>>,
      week |-> 0, wed_submitted |-> FALSE, sun_submitted |-> FALSE,
      submission_count_cumulative |-> 0,
      current_phase |-> <<>>, weeks_in_phase |-> 1, contribution_num |-> 1,
      contribution_start_week |-> 1, weeks_on_contribution |-> 1,
      weeks_remaining |-> 8, timeline_type |-> "Standard",
      phase_changed_this_week |-> FALSE,
      issue_url |-> <<>>, mr_url |-> <<>>,
      why_chosen_complete |-> FALSE, reproduction_complete |-> FALSE,
      solution_complete |-> FALSE, implementation_complete |-> FALSE,
      testing_complete |-> FALSE, feedback_complete |-> FALSE,
      deliverables_expected |-> 0, deliverables_complete |-> 0,
      days_since_commit |-> 0,
      blocked |-> FALSE, blocker_desc |-> <<>>,
      issue_url_previous_week |-> <<>>, issue_changed |-> FALSE,
      issue_change_week |-> 0, issue_swap_detected |-> FALSE,
      new_contribution_detected |-> FALSE,
      grade_status |-> ON_TRACK, intervention_type |-> "",
      consecutive_misses |-> 0,
      _illogical_phase_change |-> None, _missing_previous_phase |-> None ]

\* The logical fields of CSV_COLUMN_MAP the model carries, in map order.
CSV_COLUMN_MAP ==
    << "member_id", "discord_username", "week", "contribution_num",
       "_submission_type", "current_phase", "issue_url", "why_chosen_complete",
       "reproduction_complete", "solution_complete", "implementation_complete",
       "testing_complete", "mr_url", "feedback_complete", "blocked",
       "blocker_desc" >>

\* The header (key) of a logical field in CSV_COLUMN_MAP; the headers of the
\* fields other than the id and the handle are carried as one token each.
CSV_HEADER(field_name) ==
    CASE field_name = "member_id" -> <<"What's your Member ID", "?">>
      [] field_name = "discord_username" -> <<"What is your Discord username", "?">>
      [] OTHER -> <<field_name>>

\* Alternative column names for the handle.
DISCORD_USERNAME_COLUMNS ==
    << <<"What is your Discord username", "?">>, <<"Discord Username">>,
       <<"Discord">>, <<"discord_username">> >>

\* The roster's candidate names for the id and the handle columns.
MASTER_CSV_COLUMNS ==
    [ member_id |-> << <<"Member ID">>, <<"member_id">>, <<"MemberID">> >>,
      discord_username |->
          << <<"Discord Username">>, <<"Discord">>, <<"discord_username">> >> ]

\* _normalize_header
_normalize_header(header) == RStrip(RemoveToken(Lower(Strip(header)), "?"))

\* The columns of a row in file order (the order of the form's questions); a
\* row with more cells than the header row also has the key None ("_restkey").
ColumnsOf(row) == SelectSeq(CSV_COLUMN_MAP, LAMBDA c : c \in DOMAIN row)

HasRestKey(row) == "_restkey" \in DOMAIN row

\* list(row.keys()) without the key None, under the header row `names`.
HeadersOf(row, names) ==
    LET cols == ColumnsOf(row) IN [k \in 1..Len(cols) |-> names[cols[k]]]

\* The column of `row` whose header is spelled `header`.
ColumnOf(row, names, header) ==
    CHOOSE c \in DOMAIN row \ {"_restkey"} : names[c] = header

\* _get_value_flexible: the cell under target_col, by exact match of the
\* header, then by the first header with the same normalisation; None when no
\* header matches.
_get_value_flexible(row, target_col) ==
    IF \E c \in DOMAIN row \cap DOMAIN fieldnames : fieldnames[c] = target_col
    THEN Some(row[CHOOSE c \in DOMAIN row \cap DOMAIN fieldnames :
                      fieldnames[c] = target_col])
    ELSE LET target_normalized == _normalize_header(target_col)
             normalized ==
                 SelectSeq(ColumnsOf(row), LAMBDA c :
                     _normalize_header(fieldnames[c]) = target_normalized)
         IN  IF normalized # <<>> THEN Some(row[normalized[1]]) ELSE None

\* _get_value_flexible raises AttributeError: no header matches and the loop
\* reaches the key None, which has no strip().
FlexibleRaises(row, target_col) ==
    HasRestKey(row) /\ _get_value_flexible(row, target_col) = None

DeliverableFields ==
    { "why_chosen_complete", "reproduction_complete", "solution_complete",
      "implementation_complete", "testing_complete", "feedback_complete" }

\* Variant of _normalize_phase that checks the keyword pairs from 4 down to 1.
_normalize_phase_last_first(phase_str) ==
    LET s == Lower(phase_str)
    IN  IF Contains(s, <<"4">>) \/ Contains(s, <<"submission">>) THEN <<"Phase ", "4">>
        ELSE IF Contains(s, <<"3">>) \/ Contains(s, <<"implementation">>) THEN <<"Phase ", "3">>
        ELSE IF Contains(s, <<"2">>) \/ Contains(s, <<"reproduction">>) THEN <<"Phase ", "2">>
        ELSE IF Contains(s, <<"1">>) \/ Contains(s, <<"selection">>) THEN <<"Phase ", "1">>
        ELSE s

\* _normalize_phase
_normalize_phase(phase_str) ==
    LET s == Lower(phase_str)
    IN  IF Contains(s, <<"1">>) \/ Contains(s, <<"selection">>) THEN <<"Phase ", "1">>
        ELSE IF Contains(s, <<"2">>) \/ Contains(s, <<"reproduction">>) THEN <<"Phase ", "2">>
        ELSE IF Contains(s, <<"3">>) \/ Contains(s, <<"implementation">>) THEN <<"Phase ", "3">>
        ELSE IF Contains(s, <<"4">>) \/ Contains(s, <<"submission">>) THEN <<"Phase ", "4">>
        ELSE s

\* _get_phase_number
_get_phase_number(phase_str) ==
    IF Contains(phase_str, <<"1">>) THEN 1
    ELSE IF Contains(phase_str, <<"2">>) THEN 2
    ELSE IF Contains(phase_str, <<"3">>) THEN 3
    ELSE IF Contains(phase_str, <<"4">>) THEN 4
    ELSE 0

\* the week branch of _transform_records: strip the "Week " prefix, int(), 0 on failure
ParseWeek(value) ==
    LET n == ParseInt(Strip(RemoveToken(value, "Week ")))
    IN  IF n = None THEN 0 ELSE TheValue(n)

\* the contribution_num branch of _transform_records, applied to the current
\* field value: "Contribution" in value -> int(last word), 1 when int() raises
\* (also for an empty split); the elif "No Contribution" -> 0; otherwise the
\* field is left as it is.
ParseContribution(value, current) ==
    IF Contains(value, <<"Contribution">>)
    THEN LET words == Split(value)
             n == IF words = <<>> THEN None ELSE ParseInt(<<words[Len(words)]>>)
         IN  IF n = None THEN 1 ELSE TheValue(n)
    ELSE IF Contains(value, <<"No", " ", "Contribution">>) THEN 0
    ELSE current

\* Variant of the _submission_type branch that tests each day on its own.
SetField_each_day(student, field_name, value) ==
    CASE field_name = "_submission_type" ->
            [student EXCEPT
               !.wed_submitted = @ \/ Contains(value, <<"Wednesday">>),
               !.sun_submitted = @ \/ Contains(value, <<"Sunday">>)]
      [] field_name = "week" -> [student EXCEPT !.week = ParseWeek(value)]
      [] field_name = "contribution_num" ->
            [student EXCEPT !.contribution_num = ParseContribution(value, @)]
      [] field_name = "current_phase" ->
            [student EXCEPT !.current_phase = _normalize_phase(value)]
      [] field_name \in DeliverableFields ->
            [student EXCEPT ![field_name] = IsTrueValue(value)]
      [] field_name = "blocked" -> [student EXCEPT !.blocked = IsTrueValue(value)]
      [] OTHER -> [student EXCEPT ![field_name] = value]

\* One pass of the `for csv_col, field_name in CSV_COLUMN_MAP.items()` body:
\* the record after the cell `value` of logical field `field_name` is applied.
SetField(student, field_name, value) ==
    CASE field_name = "_submission_type" ->
            IF Contains(value, <<"Wednesday">>) THEN [student EXCEPT !.wed_submitted = TRUE]
            ELSE IF Contains(value, <<"Sunday">>) THEN [student EXCEPT !.sun_submitted = TRUE]
            ELSE student
      [] field_name = "week" -> [student EXCEPT !.week = ParseWeek(value)]
      [] field_name = "contribution_num" ->
            [student EXCEPT !.contribution_num = ParseContribution(value, @)]
      [] field_name = "current_phase" ->
            [student EXCEPT !.current_phase = _normalize_phase(value)]
      [] field_name \in DeliverableFields ->
            [student EXCEPT ![field_name] = IsTrueValue(value)]
      [] field_name = "blocked" -> [student EXCEPT !.blocked = IsTrueValue(value)]
      [] OTHER -> [student EXCEPT ![field_name] = value]

RECURSIVE ApplyColumns(_, _, _)
ApplyColumns(student, row, k) ==
    IF k > Len(CSV_COLUMN_MAP) THEN student
    ELSE LET field_name == CSV_COLUMN_MAP[k]
             value == _get_value_flexible(row, CSV_HEADER(field_name))
         IN  ApplyColumns(IF value # None
                          THEN SetField(student, field_name, TheValue(value))
                          ELSE student,
                          row, k + 1)

\* The body of the row loop of _transform_records: one StudentRecord per row,
\* the handle filled from the lookup when the row has none.
TransformRow(row, lookup) ==
    LET student == ApplyColumns(StudentRecord, row, 1)
        member_id == Strip(student.member_id)
    IN  IF student.discord_username = <<>> /\ student.member_id # <<>>
           /\ member_id \in DOMAIN lookup
        THEN [student EXCEPT !.discord_username = lookup[member_id]]
        ELSE student

\* _transform_records
_transform_records(rows, lookup) ==
    [i \in 1..Len(rows) |-> TransformRow(rows[i], lookup)]

---------------------------------------------------------------------------
(* Per-participant timeline engine: _calculate_weeks_in_phase.             *)

\* Python's tuple comparison a < b on sort keys (integer tuples of one length)
RECURSIVE KeyLess(_, _)
KeyLess(a, b) ==
    IF a = <<>> \/ b = <<>> THEN FALSE
    ELSE IF Head(a) # Head(b) THEN Head(a) < Head(b)
    ELSE KeyLess(Tail(a), Tail(b))

\* list.sort / sorted are stable: x goes behind every element whose key is
\* not greater than its own.
RECURSIVE InsertByKey(_, _, _)
InsertByKey(sorted, x, key) ==
    IF sorted = <<>> THEN <<x>>
    ELSE IF KeyLess(key[x], key[Head(sorted)]) THEN <<x>> \o sorted
    ELSE <<Head(sorted)>> \o InsertByKey(Tail(sorted), x, key)

RECURSIVE StableSort(_, _)
StableSort(order, key) ==
    IF order = <<>> THEN <<>>
    ELSE InsertByKey(StableSort(SubSeq(order, 1, Len(order) - 1), key),
                     order[Len(order)], key)

\* The stripped participant id of a record; blank ids are not grouped.
MemberKey(student) == Strip(student.member_id)

\* Variant of the grouping that puts every record into every participant's list.
submissions_by_member_ungrouped(studs, member_id) ==
    [i \in 1..Len(studs) |-> i]

\* submissions_by_member[member_id]: the positions of the participant's
\* records in `studs`, in input order.
submissions_by_member(studs, member_id) ==
    SelectSeq([i \in 1..Len(studs) |-> i],
              LAMBDA i : MemberKey(studs[i]) = member_id)

\* Variant of the keys that makes a participant of the blank id.
MemberIds_with_blank(studs) ==
    {MemberKey(studs[i]) : i \in 1..Len(studs)}

\* The keys of submissions_by_member.
MemberIds(studs) ==
    {MemberKey(studs[i]) : i \in 1..Len(studs)} \ {<<>>}

\* member_submissions.sort(key=lambda s: s.week)
SortByWeek(studs, order) ==
    StableSort(order, [i \in 1..Len(studs) |-> <<studs[i].week>>])

\* The per-contribution trackers before a participant's first record.
InitialTrackers ==
    [ current_contribution |-> None, current_phase |-> None,
      phase_start_week |-> None, contribution_start_week |-> None,
      phases_submitted_for_contribution |-> {} ]

\* Variant of the reset that keeps the phases seen in the earlier contribution.
ResetOnNewContribution_keeps_phases(t, contrib_num, week) ==
    IF Some(contrib_num) # t.current_contribution
    THEN [ current_contribution |-> Some(contrib_num), current_phase |-> None,
           phase_start_week |-> None, contribution_start_week |-> Some(week),
           phases_submitted_for_contribution |-> t.phases_submitted_for_contribution ]
    ELSE t

\* Variant of the reset that keeps the start week of the earlier contribution.
ResetOnNewContribution_keeps_start_week(t, contrib_num, week) ==
    IF Some(contrib_num) # t.current_contribution
    THEN [ current_contribution |-> Some(contrib_num), current_phase |-> None,
           phase_start_week |-> None,
           contribution_start_week |->
               IF t.contribution_start_week = None THEN Some(week)
               ELSE t.contribution_start_week,
           phases_submitted_for_contribution |-> {} ]
    ELSE t

\* "if contrib_num != current_contribution": reset the per-contribution trackers.
ResetOnNewContribution(t, contrib_num, week) ==
    IF Some(contrib_num) # t.current_contribution
    THEN [ current_contribution |-> Some(contrib_num), current_phase |-> None,
           phase_start_week |-> None, contribution_start_week |-> Some(week),
           phases_submitted_for_contribution |-> {} ]
    ELSE t

\* Variant of the check that flags a phase only when no lower phase was seen.
MissingPreviousPhase_any_lower(phase_num, seen) ==
    /\ phase_num - 1 >= 1
    /\ \A earlier \in 1..(phase_num - 1) : earlier \notin seen

\* "Check for missing IMMEDIATE previous phase": the phase directly before the
\* record's is >= 1 and has no record so far in this contribution.
MissingPreviousPhase(phase_num, seen) ==
    LET immediate_previous_phase == phase_num - 1
    IN  immediate_previous_phase >= 1 /\ immediate_previous_phase \notin seen

\* Variant of the loop body whose estimate of the phase start has no lower
\* bound at the contribution start.
PhaseStep_estimate_not_clamped(t0, submission) ==
    LET phase_num == _get_phase_number(submission.current_phase)
        week == submission.week
        contrib_num == submission.contribution_num
        t1 == ResetOnNewContribution(t0, contrib_num, week)
        seen == IF phase_num > 0
                THEN t1.phases_submitted_for_contribution \cup {phase_num}
                ELSE t1.phases_submitted_for_contribution
        csw == TheValue(t1.contribution_start_week)
        changed == Some(phase_num) # t1.current_phase
        first == t1.phase_start_week = None
        phase_start_week ==
            IF ~changed THEN TheValue(t1.phase_start_week)
            ELSE IF first
                 THEN IF phase_num = 1 THEN csw
                      ELSE Min(week, csw + (phase_num - 1))
                 ELSE week
        illogical == changed /\ ~first /\ phase_num < TheValue(t1.current_phase)
    IN  [ trackers |->
            [ current_contribution |-> t1.current_contribution,
              current_phase |-> Some(phase_num),
              phase_start_week |-> Some(phase_start_week),
              contribution_start_week |-> t1.contribution_start_week,
              phases_submitted_for_contribution |-> seen ],
          submission |->
            [ submission EXCEPT
                !.phase_changed_this_week = changed /\ ~first,
                !._illogical_phase_change = Some(illogical),
                !.weeks_in_phase = Max(1, week - phase_start_week + 1),
                !.weeks_on_contribution = week - csw + 1,
                !.contribution_start_week = csw,
                !._missing_previous_phase =
                    Some(MissingPreviousPhase(phase_num, seen)) ] ]

\* The body of the first loop over member_submissions, for one record:
\* the trackers and the record afterwards.
PhaseStep(t0, submission) ==
    LET phase_num == _get_phase_number(submission.current_phase)
        week == submission.week
        contrib_num == submission.contribution_num
        t1 == ResetOnNewContribution(t0, contrib_num, week)
        seen == IF phase_num > 0
                THEN t1.phases_submitted_for_contribution \cup {phase_num}
                ELSE t1.phases_submitted_for_contribution
        csw == TheValue(t1.contribution_start_week)
        changed == Some(phase_num) # t1.current_phase
        first == t1.phase_start_week = None
        phase_start_week ==
            IF ~changed THEN TheValue(t1.phase_start_week)
            ELSE IF first
                 THEN IF phase_num = 1 THEN csw
                      ELSE Min(week, Max(csw, csw + (phase_num - 1)))
                 ELSE week
        illogical == changed /\ ~first /\ phase_num < TheValue(t1.current_phase)
    IN  [ trackers |->
            [ current_contribution |-> t1.current_contribution,
              current_phase |-> Some(phase_num),
              phase_start_week |-> Some(phase_start_week),
              contribution_start_week |-> t1.contribution_start_week,
              phases_submitted_for_contribution |-> seen ],
          submission |->
            [ submission EXCEPT
                !.phase_changed_this_week = changed /\ ~first,
                !._illogical_phase_change = Some(illogical),
                !.weeks_in_phase = Max(1, week - phase_start_week + 1),
                !.weeks_on_contribution = week - csw + 1,
                !.contribution_start_week = csw,
                !._missing_previous_phase =
                    Some(MissingPreviousPhase(phase_num, seen)) ] ]

\* Variant of the first loop that never marks a phase change as illogical.
RECURSIVE PhaseLoop_never_illogical(_, _, _, _)
PhaseLoop_never_illogical(studs, member_submissions, k, trackers) ==
    IF k > Len(member_submissions) THEN studs
    ELSE LET i == member_submissions[k]
             step == PhaseStep(trackers, studs[i])
         IN  PhaseLoop_never_illogical(
                 [studs EXCEPT ![i] = [step.submission EXCEPT
                                          !._illogical_phase_change = Some(FALSE)]],
                 member_submissions, k + 1, step.trackers)

\* Variant of the first loop that counts weeks_in_phase from the start of the
\* contribution.
RECURSIVE PhaseLoop_weeks_from_contribution(_, _, _, _)
PhaseLoop_weeks_from_contribution(studs, member_submissions, k, trackers) ==
    IF k > Len(member_submissions) THEN studs
    ELSE LET i == member_submissions[k]
             step == PhaseStep(trackers, studs[i])
         IN  PhaseLoop_weeks_from_contribution(
                 [studs EXCEPT ![i] = [step.submission EXCEPT
                                          !.weeks_in_phase =
                                              step.submission.weeks_on_contribution]],
                 member_submissions, k + 1, step.trackers)

RECURSIVE PhaseLoop(_, _, _, _)
PhaseLoop(studs, member_submissions, k, trackers) ==
    IF k > Len(member_submissions) THEN studs
    ELSE LET i == member_submissions[k]
             step == PhaseStep(trackers, studs[i])
         IN  PhaseLoop([studs EXCEPT ![i] = step.submission],
                       member_submissions, k + 1, step.trackers)

\* Variant of the count that starts again when the contribution number changes.
RECURSIVE SubmissionCountLoop_per_contribution(_, _, _, _)
SubmissionCountLoop_per_contribution(studs, member_submissions, k, submission_count) ==
    IF k > Len(member_submissions) THEN studs
    ELSE LET i == member_submissions[k]
             carried ==
                 IF k > 1 /\ studs[member_submissions[k - 1]].contribution_num
                                # studs[i].contribution_num
                 THEN 0 ELSE submission_count
             n == carried
                  + (IF studs[i].wed_submitted THEN 1 ELSE 0)
                  + (IF studs[i].sun_submitted THEN 1 ELSE 0)
         IN  SubmissionCountLoop_per_contribution(
                 [studs EXCEPT ![i].submission_count_cumulative = n],
                 member_submissions, k + 1, n)

\* submission_count_cumulative: the running count of true submission flags.
RECURSIVE SubmissionCountLoop(_, _, _, _)
SubmissionCountLoop(studs, member_submissions, k, submission_count) ==
    IF k > Len(member_submissions) THEN studs
    ELSE LET i == member_submissions[k]
             n == submission_count
                  + (IF studs[i].wed_submitted THEN 1 ELSE 0)
                  + (IF studs[i].sun_submitted THEN 1 ELSE 0)
         IN  SubmissionCountLoop(
                 [studs EXCEPT ![i].submission_count_cumulative = n],
                 member_submissions, k + 1, n)

\* week_to_sun_submitted: for each week, the Sunday flag of the last record of
\* that week in member_submissions (later assignments overwrite earlier ones).
week_to_sun_submitted(studs, member_submissions) ==
    LET weeks == {studs[member_submissions[k]].week : k \in 1..Len(member_submissions)}
        last(w) == CHOOSE k \in 1..Len(member_submissions) :
                      /\ studs[member_submissions[k]].week = w
                      /\ \A j \in (k + 1)..Len(member_submissions) :
                            studs[member_submissions[j]].week # w
    IN  [w \in weeks |-> studs[member_submissions[last(w)]].sun_submitted]

\* submission_sort_key: (week, 0 for a Wednesday record, 1 otherwise)
submission_sort_key(s) == <<s.week, IF s.wed_submitted THEN 0 ELSE 1>>

\* sorted(member_submissions, key=submission_sort_key)
sorted_submissions(studs, member_submissions) ==
    StableSort(member_submissions,
               [i \in 1..Len(studs) |-> submission_sort_key(studs[i])])

\* Variant of the backward count that does not stop at a Sunday submission.
RECURSIVE CountBackwards_no_stop(_, _)
CountBackwards_no_stop(sun_map, check_week) ==
    IF check_week < 1 THEN 0
    ELSE 1 + CountBackwards_no_stop(sun_map, check_week - 1)

\* The `while check_week >= 1` loop: the misses counted from check_week down.
RECURSIVE CountBackwards(_, _)
CountBackwards(sun_map, check_week) ==
    IF check_week < 1 THEN 0
    ELSE IF check_week \in DOMAIN sun_map
         THEN IF ~sun_map[check_week]
              THEN 1 + CountBackwards(sun_map, check_week - 1)
              ELSE 0
         ELSE 1 + CountBackwards(sun_map, check_week - 1)

\* Variant of the miss loop that counts the gap on every record.
RECURSIVE ConsecutiveMissesLoop_every_record(_, _, _, _, _)
ConsecutiveMissesLoop_every_record(studs, sorted, k, sun_map, last_accounted_week) ==
    IF k > Len(sorted) THEN studs
    ELSE LET i == sorted[k]
             consecutive_misses == CountBackwards(sun_map, studs[i].week - 1)
         IN  ConsecutiveMissesLoop_every_record(
                 [studs EXCEPT ![i].consecutive_misses = consecutive_misses],
                 sorted, k + 1, sun_map, last_accounted_week)

\* The loop over sorted_submissions that assigns consecutive_misses.
RECURSIVE ConsecutiveMissesLoop(_, _, _, _, _)
ConsecutiveMissesLoop(studs, sorted, k, sun_map, last_accounted_week) ==
    IF k > Len(sorted) THEN studs
    ELSE LET i == sorted[k]
             current_week == studs[i].week
             consecutive_misses ==
                 IF current_week > last_accounted_week
                 THEN CountBackwards(sun_map, current_week - 1)
                 ELSE 0
             accounted == IF consecutive_misses > 0 THEN current_week
                          ELSE last_accounted_week
         IN  ConsecutiveMissesLoop(
                 [studs EXCEPT ![i].consecutive_misses = consecutive_misses],
                 sorted, k + 1, sun_map, accounted)

\* The issue trackers before a participant's first record.
InitialIssueTrackers ==
    [ previous_issue_url |-> None, previous_contribution |-> None,
      previous_week |-> None, issue_change_week |-> 0 ]

\* Variant of the loop body that keeps the tracked URL when the contribution
\* number changes.
IssueStep_keeps_url_across_contributions(t0, submission) ==
    LET week == submission.week
        current_issue == Strip(submission.issue_url)
        contrib_num == submission.contribution_num
        url_previous_week ==
            IF t0.previous_week # None /\ TheValue(t0.previous_week) = week - 1
               /\ t0.previous_issue_url # None
            THEN TheValue(t0.previous_issue_url)
            ELSE <<>>
        new_contribution == t0.previous_contribution # None
                            /\ Some(contrib_num) # t0.previous_contribution
        t1 == IF new_contribution
              THEN [t0 EXCEPT !.issue_change_week = 0]
              ELSE t0
        issue_changed == /\ t1.previous_issue_url # None
                         /\ current_issue # <<>>
                         /\ Some(current_issue) # t1.previous_issue_url
        issue_change_week == IF issue_changed THEN week ELSE t1.issue_change_week
    IN  [ trackers |->
            [ previous_issue_url |->
                  IF current_issue # <<>> THEN Some(current_issue)
                  ELSE t1.previous_issue_url,
              previous_contribution |-> Some(contrib_num),
              previous_week |-> Some(week),
              issue_change_week |-> issue_change_week ],
          submission |->
            [ submission EXCEPT
                !.issue_url_previous_week = url_previous_week,
                !.new_contribution_detected = new_contribution,
                !.issue_changed = issue_changed,
                !.issue_swap_detected =
                    issue_changed /\ Some(contrib_num) = t0.previous_contribution,
                !.issue_change_week =
                    IF issue_change_week > 0 THEN issue_change_week ELSE 0 ] ]

\* The body of the issue-tracking loop for one record.
IssueStep(t0, submission) ==
    LET week == submission.week
        current_issue == Strip(submission.issue_url)
        contrib_num == submission.contribution_num
        url_previous_week ==
            IF t0.previous_week # None /\ TheValue(t0.previous_week) = week - 1
               /\ t0.previous_issue_url # None
            THEN TheValue(t0.previous_issue_url)
            ELSE <<>>
        new_contribution == t0.previous_contribution # None
                            /\ Some(contrib_num) # t0.previous_contribution
        t1 == IF new_contribution
              THEN [t0 EXCEPT !.issue_change_week = 0, !.previous_issue_url = None]
              ELSE t0
        issue_changed == /\ t1.previous_issue_url # None
                         /\ current_issue # <<>>
                         /\ Some(current_issue) # t1.previous_issue_url
        issue_change_week == IF issue_changed THEN week ELSE t1.issue_change_week
    IN  [ trackers |->
            [ previous_issue_url |->
                  IF current_issue # <<>> THEN Some(current_issue)
                  ELSE t1.previous_issue_url,
              previous_contribution |-> Some(contrib_num),
              previous_week |-> Some(week),
              issue_change_week |-> issue_change_week ],
          submission |->
            [ submission EXCEPT
                !.issue_url_previous_week = url_previous_week,
                !.new_contribution_detected = new_contribution,
                !.issue_changed = issue_changed,
                !.issue_swap_detected =
                    issue_changed /\ Some(contrib_num) = t0.previous_contribution,
                !.issue_change_week =
                    IF issue_change_week > 0 THEN issue_change_week ELSE 0 ] ]

\* Variant of the issue loop that forgets the tracked URL at a record without one.
RECURSIVE IssueLoop_forgets_at_blank(_, _, _, _)
IssueLoop_forgets_at_blank(studs, member_submissions, k, trackers) ==
    IF k > Len(member_submissions) THEN studs
    ELSE LET i == member_submissions[k]
             step == IssueStep(trackers, studs[i])
             kept == IF Strip(studs[i].issue_url) = <<>>
                     THEN [step.trackers EXCEPT !.previous_issue_url = None]
                     ELSE step.trackers
         IN  IssueLoop_forgets_at_blank([studs EXCEPT ![i] = step.submission],
                                        member_submissions, k + 1, kept)

\* Variant of the issue loop that does not carry issue_change_week forward.
RECURSIVE IssueLoop_week_not_carried(_, _, _, _)
IssueLoop_week_not_carried(studs, member_submissions, k, trackers) ==
    IF k > Len(member_submissions) THEN studs
    ELSE LET i == member_submissions[k]
             step == IssueStep(trackers, studs[i])
         IN  IssueLoop_week_not_carried(
                 [studs EXCEPT ![i] = step.submission], member_submissions, k + 1,
                 [step.trackers EXCEPT !.issue_change_week = 0])

RECURSIVE IssueLoop(_, _, _, _)
IssueLoop(studs, member_submissions, k, trackers) ==
    IF k > Len(member_submissions) THEN studs
    ELSE LET i == member_submissions[k]
             step == IssueStep(trackers, studs[i])
         IN  IssueLoop([studs EXCEPT ![i] = step.submission],
                       member_submissions, k + 1, step.trackers)

\* One iteration of `for member_id, member_submissions in
\* submissions_by_member.items()`: the four passes over one participant.
ProcessMember(studs, member_id) ==
    LET member_submissions == SortByWeek(studs, submissions_by_member(studs, member_id))
        s1 == PhaseLoop(studs, member_submissions, 1, InitialTrackers)
        s2 == SubmissionCountLoop(s1, member_submissions, 1, 0)
        s3 == ConsecutiveMissesLoop(s2, sorted_submissions(s2, member_submissions), 1,
                                    week_to_sun_submitted(s2, member_submissions), 0)
    IN  IssueLoop(s3, member_submissions, 1, InitialIssueTrackers)

RECURSIVE ProcessMembers(_, _)
ProcessMembers(studs, member_ids) ==
    IF member_ids = {} THEN studs
    ELSE LET member_id == CHOOSE m \in member_ids : TRUE
         IN  ProcessMembers(ProcessMember(studs, member_id), member_ids \ {member_id})

\* _calculate_weeks_in_phase
_calculate_weeks_in_phase(studs) == ProcessMembers(studs, MemberIds(studs))

---------------------------------------------------------------------------
(* Derived fields and the risk classifier.                                 *)

BoolCount(b) == IF b THEN 1 ELSE 0

\* Variant of the deliverables_expected steps in which Phase 3 adds one
\* deliverable instead of two.
DeliverablesExpected_phase3_adds_one(current, phase_num) ==
    LET d1 == IF phase_num >= 1 THEN 1 ELSE current
        d2 == IF phase_num >= 2 THEN d1 + 2 ELSE d1
        d3 == IF phase_num >= 3 THEN d2 + 1 ELSE d2
    IN  IF phase_num >= 4 THEN d3 + 1 ELSE d3

\* The deliverables_expected steps of _calculate_derived_fields, starting from
\* the record's current value.
DeliverablesExpected(current, phase_num) ==
    LET d1 == IF phase_num >= 1 THEN 1 ELSE current
        d2 == IF phase_num >= 2 THEN d1 + 2 ELSE d1
        d3 == IF phase_num >= 3 THEN d2 + 2 ELSE d2
    IN  IF phase_num >= 4 THEN d3 + 1 ELSE d3

\* Variant of the timeline_type branch that tests the Critical condition first.
TimelineType_critical_first(weeks_remaining, phase_num) ==
    IF weeks_remaining < 2 /\ phase_num < 4 THEN "Critical"
    ELSE IF weeks_remaining < 3 /\ phase_num < 3 THEN "Compressed"
    ELSE "Standard"

\* The timeline_type branch of _calculate_derived_fields.
TimelineType(weeks_remaining, phase_num) ==
    IF weeks_remaining < 3 /\ phase_num < 3 THEN "Compressed"
    ELSE IF weeks_remaining < 2 /\ phase_num < 4 THEN "Critical"
    ELSE "Standard"

\* The body of the `for student in students` loop of _calculate_derived_fields.
DerivedFields(student) ==
    LET phase_num == _get_phase_number(student.current_phase)
        weeks_remaining == Max(0, ProgramWeeks - student.week)
    IN  [ student EXCEPT
            !.deliverables_expected = DeliverablesExpected(@, phase_num),
            !.deliverables_complete =
                BoolCount(student.why_chosen_complete)
                + BoolCount(student.reproduction_complete)
                + BoolCount(student.solution_complete)
                + BoolCount(student.implementation_complete)
                + BoolCount(student.testing_complete)
                + BoolCount(student.feedback_complete),
            !.weeks_remaining = weeks_remaining,
            !.timeline_type = TimelineType(weeks_remaining, phase_num) ]

\* _calculate_derived_fields: the timeline engine, then the per-record loop.
_calculate_derived_fields(studs) ==
    LET timed == _calculate_weeks_in_phase(studs)
    IN  [i \in 1..Len(timed) |-> DerivedFields(timed[i])]

\* getattr(student, name, False) for the two private attributes
GetAttr(attr) == IF attr = None THEN FALSE ELSE TheValue(attr)

\* Variant of the AT RISK chain that tests the blocker rule first.
AtRiskIntervention_stalled_first(student, phase_num) ==
    IF student.blocked /\ student.blocker_desc # <<>> THEN "STALLED"
    ELSE IF ~student.wed_submitted /\ ~student.sun_submitted THEN "MISSING_BOTH"
    ELSE IF student.week >= 6 /\ phase_num <= 2 THEN "PHASE_CRITICAL"
    ELSE IF student.weeks_remaining < 2 /\ phase_num < 4 THEN "PHASE_CRITICAL"
    ELSE ""

\* Variant of the AT RISK chain whose early-phase rule starts after week 6.
AtRiskIntervention_after_week_six(student, phase_num) ==
    IF ~student.wed_submitted /\ ~student.sun_submitted THEN "MISSING_BOTH"
    ELSE IF student.week > 6 /\ phase_num <= 2 THEN "PHASE_CRITICAL"
    ELSE IF student.weeks_remaining < 2 /\ phase_num < 4 THEN "PHASE_CRITICAL"
    ELSE IF student.blocked /\ student.blocker_desc # <<>> THEN "STALLED"
    ELSE ""

\* The AT RISK chain of _calculate_grade_status: the code, "" when none applies.
AtRiskIntervention(student, phase_num) ==
    IF ~student.wed_submitted /\ ~student.sun_submitted THEN "MISSING_BOTH"
    ELSE IF student.week >= 6 /\ phase_num <= 2 THEN "PHASE_CRITICAL"
    ELSE IF student.weeks_remaining < 2 /\ phase_num < 4 THEN "PHASE_CRITICAL"
    ELSE IF student.blocked /\ student.blocker_desc # <<>> THEN "STALLED"
    ELSE ""

\* Variant of the FLAGGED chain that tests the deliverables before the misses.
FlaggedIntervention_deliverables_early(student, phase_num) ==
    IF GetAttr(student._missing_previous_phase) THEN "MISSING_PREVIOUS_PHASE"
    ELSE IF GetAttr(student._illogical_phase_change) THEN "ILLOGICAL_PHASE_CHANGE"
    ELSE IF phase_num = 3 /\ student.mr_url # <<>> /\ Strip(student.mr_url) # <<>>
         THEN "INCORRECT_PHASE_URL"
    ELSE IF student.deliverables_complete < student.deliverables_expected
         THEN "MISSING_DELIVERABLES"
    ELSE IF student.consecutive_misses > 0 THEN "MISSING_PREVIOUS_SUBMISSION"
    ELSE IF student.days_since_commit > 7 THEN "NO_ACTIVITY"
    ELSE IF student.timeline_type = "Compressed" THEN "TIMELINE_COMPRESSED"
    ELSE ""

\* The FLAGGED chain of _calculate_grade_status: the code, "" when none applies.
FlaggedIntervention(student, phase_num) ==
    IF GetAttr(student._missing_previous_phase) THEN "MISSING_PREVIOUS_PHASE"
    ELSE IF GetAttr(student._illogical_phase_change) THEN "ILLOGICAL_PHASE_CHANGE"
    ELSE IF phase_num = 3 /\ student.mr_url # <<>> /\ Strip(student.mr_url) # <<>>
         THEN "INCORRECT_PHASE_URL"
    ELSE IF student.consecutive_misses > 0 THEN "MISSING_PREVIOUS_SUBMISSION"
    ELSE IF student.deliverables_complete < student.deliverables_expected
         THEN "MISSING_DELIVERABLES"
    ELSE IF student.days_since_commit > 7 THEN "NO_ACTIVITY"
    ELSE IF student.timeline_type = "Compressed" THEN "TIMELINE_COMPRESSED"
    ELSE ""

\* Variant of the grading step in which a FLAGGED condition outranks AT RISK.
GradeStatus_flagged_first(student) ==
    LET phase_num == _get_phase_number(student.current_phase)
        flagged_code == FlaggedIntervention(student, phase_num)
        flagged == flagged_code # ""
        at_risk_code == IF flagged THEN "" ELSE AtRiskIntervention(student, phase_num)
        at_risk == at_risk_code # ""
    IN  [ student EXCEPT
            !.grade_status = IF flagged THEN FLAGGED
                             ELSE IF at_risk THEN AT_RISK
                             ELSE ON_TRACK,
            !.intervention_type = IF flagged THEN flagged_code ELSE at_risk_code ]

\* Variant of the grading step without the `if not at_risk` guard: the FLAGGED
\* chain runs for every record and its code overwrites the AT RISK code.
GradeStatus_unguarded_chain(student) ==
    LET phase_num == _get_phase_number(student.current_phase)
        at_risk_code == AtRiskIntervention(student, phase_num)
        at_risk == at_risk_code # ""
        flagged_code == FlaggedIntervention(student, phase_num)
        flagged == flagged_code # ""
    IN  [ student EXCEPT
            !.grade_status = IF at_risk THEN AT_RISK
                             ELSE IF flagged THEN FLAGGED
                             ELSE ON_TRACK,
            !.intervention_type = IF flagged THEN flagged_code ELSE at_risk_code ]

\* The body of the `for student in students` loop of _calculate_grade_status.
GradeStatus(student) ==
    LET phase_num == _get_phase_number(student.current_phase)
        at_risk_code == AtRiskIntervention(student, phase_num)
        at_risk == at_risk_code # ""
        flagged_code == IF at_risk THEN "" ELSE FlaggedIntervention(student, phase_num)
        flagged == flagged_code # ""
    IN  [ student EXCEPT
            !.grade_status = IF at_risk THEN AT_RISK
                             ELSE IF flagged THEN FLAGGED
                             ELSE ON_TRACK,
            !.intervention_type = IF at_risk THEN at_risk_code ELSE flagged_code ]

\* _calculate_grade_status
_calculate_grade_status(studs) ==
    [i \in 1..Len(studs) |-> GradeStatus(studs[i])]

---------------------------------------------------------------------------
(* Identity reconciliation from the submissions table.                     *)

InSeq(x, seq) == \E k \in 1..Len(seq) : seq[k] = x

\* _find_column: the first candidate name that is a header; failing that, the
\* header whose lower-case form is that of the first candidate name with one
\* (headers_lower keeps the last header of each lower-case form); else None.
_find_column(headers, possible_names) ==
    LET exact == SelectSeq(possible_names, LAMBDA name : InSeq(name, headers))
        insensitive ==
            SelectSeq(possible_names, LAMBDA name :
                \E k \in 1..Len(headers) : Lower(headers[k]) = Lower(name))
    IN  IF exact # <<>> THEN Some(exact[1])
        ELSE IF insensitive # <<>>
        THEN LET name == insensitive[1]
                 last == CHOOSE k \in 1..Len(headers) :
                             /\ Lower(headers[k]) = Lower(name)
                             /\ \A j \in (k + 1)..Len(headers) :
                                   Lower(headers[j]) # Lower(name)
             IN  Some(headers[last])
        ELSE None

\* _find_column raises AttributeError: no candidate name is a header and the
\* headers include the key None, which has no lower().
FindColumnRaises(row, names, possible_names) ==
    /\ HasRestKey(row)
    /\ \A k \in 1..Len(possible_names) :
          ~InSeq(possible_names[k], HeadersOf(row, names))

\* The `for row in rows` loop of _build_discord_lookup (and the same loop of
\* _build_master_discord_lookup) over rows k..Len(rows), reading the id and
\* the handle from the given columns: later rows overwrite earlier ones.
RECURSIVE DiscordLookupLoop(_, _, _, _, _)
DiscordLookupLoop(rows, member_id_col, discord_col, k, lookup) ==
    IF k > Len(rows) THEN lookup
    ELSE LET row == rows[k]
             member_id == IF member_id_col \in DOMAIN row
                          THEN Strip(row[member_id_col]) ELSE <<>>
             discord_username == IF discord_col \in DOMAIN row
                                 THEN Strip(row[discord_col]) ELSE <<>>
             next == IF member_id # <<>> /\ discord_username # <<>>
                     THEN [m \in DOMAIN lookup \cup {member_id} |->
                              IF m = member_id THEN discord_username ELSE lookup[m]]
                     ELSE lookup
         IN  DiscordLookupLoop(rows, member_id_col, discord_col, k + 1, next)

\* _build_discord_lookup: the handle column by _find_column, the id column by
\* its exact CSV_COLUMN_MAP header; empty unless the first row has both.
_build_discord_lookup(rows) ==
    IF rows = <<>> THEN <<>>
    ELSE LET headers == HeadersOf(rows[1], fieldnames)
             discord_col == _find_column(headers, DISCORD_USERNAME_COLUMNS)
         IN  IF discord_col = None THEN <<>>
             ELSE IF ~InSeq(CSV_HEADER("member_id"), headers) THEN <<>>
             ELSE DiscordLookupLoop(
                      rows,
                      ColumnOf(rows[1], fieldnames, CSV_HEADER("member_id")),
                      ColumnOf(rows[1], fieldnames, TheValue(discord_col)),
                      1, <<>>)

\* Variant of _build_master_discord_lookup that reads the roster in whatever
\* encoding it has.
_build_master_discord_lookup_any_encoding(master) ==
    IF master.rows = <<>> THEN <<>>
    ELSE LET headers == HeadersOf(master.rows[1], master.fieldnames)
             member_id_col == _find_column(headers, MASTER_CSV_COLUMNS.member_id)
             discord_col == _find_column(headers, MASTER_CSV_COLUMNS.discord_username)
         IN  IF member_id_col = None THEN <<>>
             ELSE IF discord_col = None THEN <<>>
             ELSE DiscordLookupLoop(
                      master.rows,
                      ColumnOf(master.rows[1], master.fieldnames, TheValue(member_id_col)),
                      ColumnOf(master.rows[1], master.fieldnames, TheValue(discord_col)),
                      1, <<>>)

\* _build_master_discord_lookup: the roster bytes are decoded as UTF-8 (a
\* failure ends in the except clause, with the empty lookup), then both
\* columns are found by _find_column; empty when the roster has no rows or
\* lacks a column.
_build_master_discord_lookup(master) ==
    IF ~master.decodable THEN <<>>
    ELSE IF master.rows = <<>> THEN <<>>
    ELSE LET headers == HeadersOf(master.rows[1], master.fieldnames)
             member_id_col == _find_column(headers, MASTER_CSV_COLUMNS.member_id)
             discord_col == _find_column(headers, MASTER_CSV_COLUMNS.discord_username)
         IN  IF member_id_col = None THEN <<>>
             ELSE IF discord_col = None THEN <<>>
             ELSE DiscordLookupLoop(
                      master.rows,
                      ColumnOf(master.rows[1], master.fieldnames, TheValue(member_id_col)),
                      ColumnOf(master.rows[1], master.fieldnames, TheValue(discord_col)),
                      1, <<>>)

\* Variant of the merge in which the submissions table overrides the roster.
MergeLookups_submissions_win(primary, typeform_discord_lookup) ==
    [ member_id \in DOMAIN primary \cup DOMAIN typeform_discord_lookup |->
        IF member_id \in DOMAIN typeform_discord_lookup
        THEN typeform_discord_lookup[member_id]
        ELSE primary[member_id] ]

\* The merge in process(): the roster lookup, supplemented by the entries of
\* the submissions-table lookup whose id it does not have.
MergeLookups(primary, typeform_discord_lookup) ==
    [ member_id \in DOMAIN primary \cup DOMAIN typeform_discord_lookup |->
        IF member_id \in DOMAIN primary THEN primary[member_id]
        ELSE typeform_discord_lookup[member_id] ]

\* discord_lookup as process() builds it from the roster (when one is
\* supplied) and the submissions table.
BuildDiscordLookup(master, rows) ==
    MergeLookups(IF master # None
                 THEN _build_master_discord_lookup(TheValue(master))
                 ELSE <<>>,
                 _build_discord_lookup(rows))

---------------------------------------------------------------------------
(* Input rows: the bounded families of CSV rows a run is drawn from.       *)

WeekCell(w) == <<"Week ", Numeral(w)>>

ContributionCell(n) == <<"Contribution", " ", Numeral(n)>>

PhaseCell(p) == <<"Phase ", Numeral(p)>>

\* The deliverable cells of a row whose first k deliverables are done.
DeliverableCell(k, position) == IF position <= k THEN <<"Yes">> ELSE <<"No">>

\* A week-1, Phase-1, Sunday row of participant A with nothing else filled in.
BaseRow ==
    [ member_id |-> <<"A">>, discord_username |-> <<>>, week |-> WeekCell(1),
      contribution_num |-> ContributionCell(1),
      _submission_type |-> <<"Sunday">>, current_phase |-> PhaseCell(1),
      issue_url |-> <<>>, mr_url |-> <<>>,
      blocked |-> <<"No">>, blocker_desc |-> <<>>,
      why_chosen_complete |-> <<"No">>, reproduction_complete |-> <<"No">>,
      solution_complete |-> <<"No">>, implementation_complete |-> <<"No">>,
      testing_complete |-> <<"No">>, feedback_complete |-> <<"No">> ]

WithDeliverables(row, k) ==
    [ row EXCEPT
        !.why_chosen_complete = DeliverableCell(k, 1),
        !.reproduction_complete = DeliverableCell(k, 2),
        !.solution_complete = DeliverableCell(k, 3),
        !.implementation_complete = DeliverableCell(k, 4),
        !.testing_complete = DeliverableCell(k, 5),
        !.feedback_complete = DeliverableCell(k, 6) ]

SubmissionCells == {<<"Wednesday">>, <<"Sunday">>, <<>>}

\* "phases": one participant, one contribution, phases 1..3 over weeks 1..MaxWeek.
PhaseRows ==
    { [BaseRow EXCEPT !.week = WeekCell(w), !.current_phase = PhaseCell(p)] :
        w \in 1..MaxWeek, p \in 1..3 }

\* "defaults": records that take defaults: a blank participant id, a week cell
\* int() rejects (week 0), a phase the normalisation does not recognise.
DefaultRows ==
    { [BaseRow EXCEPT !.member_id = m, !.week = w, !.current_phase = p] :
        m \in {<<"A">>, <<>>},
        w \in {<<"Week ", "TBD">>, WeekCell(1), WeekCell(2)},
        p \in {<<"TBD">>, PhaseCell(2)} }

\* "contributions": one participant, the first contribution at Phase 1 or 2,
\* the second at Phase 2.
ContributionRows ==
    { [BaseRow EXCEPT !.week = WeekCell(w), !.contribution_num = ContributionCell(x[1]),
                      !.current_phase = PhaseCell(x[2])] :
        w \in 1..MaxWeek, x \in {<<1, 1>>, <<1, 2>>, <<2, 2>>} }

\* "misses": one participant, every submission type, weeks 0..MaxWeek (week 0
\* through a week cell int() rejects).
MissRows ==
    { [BaseRow EXCEPT !.week = w, !._submission_type = t] :
        w \in {WeekCell(n) : n \in 1..MaxWeek} \cup {<<"Week ", "TBD">>},
        t \in SubmissionCells }

\* "participants": two participants, weeks 1 and 2, a
\* Phase-1 Sunday record or a Phase-2 Wednesday record.
ParticipantRows ==
    { [BaseRow EXCEPT !.member_id = m, !.week = WeekCell(w),
                      !.current_phase = PhaseCell(x[1]), !._submission_type = x[2]] :
        m \in {<<"A">>, <<"B">>}, w \in 1..2,
        x \in {<<1, <<"Sunday">>>>, <<2, <<"Wednesday">>>>} }

\* "single": one record, every classifier input over the whole program.
SingleRows ==
    { WithDeliverables(
        [BaseRow EXCEPT !.week = WeekCell(w), !.current_phase = p,
                        !._submission_type = t, !.blocked = b[1],
                        !.blocker_desc = b[2], !.mr_url = u], k) :
        w \in 0..(ProgramWeeks + 1),
        p \in {PhaseCell(n) : n \in 1..4} \cup {<<"TBD">>},
        t \in SubmissionCells,
        b \in {<<<<"No">>, <<>>>>, <<<<"Yes">>, <<>>>>, <<<<"Yes">>, <<"stuck">>>>},
        u \in {<<>>, <<"mr">>},
        k \in 0..6 }

\* "history": classifier inputs that need earlier records (phase regressions,
\* phases seen before), early and late in the program, all deliverables done;
\* a merge-request URL only on Phase-3 rows.
HistoryRows ==
    { WithDeliverables(
        [BaseRow EXCEPT !.week = WeekCell(w), !.current_phase = PhaseCell(x[1]),
                        !._submission_type = <<"Wednesday">>, !.blocked = b[1],
                        !.blocker_desc = b[2], !.mr_url = x[2]], 6) :
        w \in {2, ProgramWeeks - 1},
        x \in {<<2, <<>>>>, <<3, <<>>>>, <<3, <<"mr">>>>, <<4, <<>>>>},
        b \in {<<<<"No">>, <<>>>>, <<<<"Yes">>, <<"stuck">>>>} }

\* A row with more cells than the header row has columns: the DictReader puts
\* the surplus cells under the key None.
WithRestKey(row) ==
    [ c \in DOMAIN row \cup {"_restkey"} |->
        IF c = "_restkey" THEN <<"surplus">> ELSE row[c] ]

\* A row of an export without the handle question.
WithoutHandle(row) == [c \in DOMAIN row \ {"discord_username"} |-> row[c]]

\* "malformed": tables of an export without the handle column that the run
\* can fail on: a row with surplus cells, a cell with a control character that
\* the workbook library rejects.
MalformedRows ==
    { WithoutHandle(BaseRow),
      WithoutHandle([BaseRow EXCEPT !.week = WeekCell(2)]),
      WithRestKey(WithoutHandle(BaseRow)),
      WithoutHandle([BaseRow EXCEPT !.blocker_desc = <<"NUL">>]) }

\* "handles": no roster; two participants whose rows carry no handle, a
\* handle, or a handle of blanks only (scenario D: A's handle at week 3 only).
HandleRows ==
    { [BaseRow EXCEPT !.member_id = x[1], !.week = WeekCell(x[2]),
                      !.discord_username = x[3]] :
        x \in { <<<<"A">>, 1, <<>>>>, <<<<"A">>, 2, <<>>>>, <<<<"A">>, 3, <<"ann">>>>,
                <<<<"A">>, 1, <<"annie">>>>, <<<<"A">>, 2, <<" ">>>>,
                <<<<"B">>, 1, <<>>>>, <<<<"B">>, 2, <<"bob">>>> } }

\* "roster": submissions of two participants, with or without a handle.
RosterSubmissionRows ==
    { [BaseRow EXCEPT !.member_id = x[1], !.discord_username = x[2]] :
        x \in { <<<<"A">>, <<>>>>, <<<<"A">>, <<"ann">>>>,
                <<<<"B">>, <<"bob">>>>, <<<<"B">>, <<"bobby">>>> } }

\* The rows of the rosters of the "roster" family: handles for A (two of them,
\* or none) and a handle of blanks only for B.
RosterRows ==
    { [member_id |-> x[1], discord_username |-> x[2]] :
        x \in { <<<<"A">>, <<"ann_roster">>>>, <<<<"A">>, <<"ann_roster2">>>>,
                <<<<"A">>, <<>>>>, <<<<"B">>, <<" ">>>> } }

\* The header row of a roster.
RosterFieldnames ==
    [member_id |-> <<"Member ID">>, discord_username |-> <<"Discord Username">>]

\* The rosters of at most MaxRows - 1 rows.
Rosters ==
    { [decodable |-> TRUE, fieldnames |-> RosterFieldnames, rows |-> rows] :
        rows \in UNION { [1..n -> RosterRows] : n \in 0..(MaxRows - 1) } }

\* "contribution_cells": one record, every kind of contribution answer.
ContributionCells ==
    { ContributionCell(1), ContributionCell(2), <<"No", " ", "Contribution">>,
      <<"Contribution">>, <<"Contribution", " ", "two">>, <<"2">>, <<"n/a">>, <<>> }

ContributionCellRows ==
    { [BaseRow EXCEPT !.contribution_num = cell] : cell \in ContributionCells }

\* "phase_cells": one record, phase answers with one keyword, several, none.
PhaseCells ==
    { PhaseCell(n) : n \in 1..4 }
    \cup { <<"Selection">>, <<"Reproduction">>, <<"Implementation">>, <<"Submission">>,
           <<"Phase ", "2", " ", "Selection">>, <<"Implementation", " ", "2">>,
           <<"Submission", " ", "3">>, <<"3", "/", "4">>, <<"1", "2">>,
           <<"Phase ", "5">>, <<"TBD">>, <<>> }

PhaseCellRows ==
    { [BaseRow EXCEPT !.current_phase = cell] : cell \in PhaseCells }

\* The header row of the form's export: every column under its CSV_COLUMN_MAP
\* header.
StandardFieldnames ==
    [ c \in {CSV_COLUMN_MAP[k] : k \in 1..Len(CSV_COLUMN_MAP)} |-> CSV_HEADER(c) ]

\* "headers": no roster; submissions whose id and handle columns are spelled
\* as the form spells them or with another letter case, without the "?", or
\* with a blank in front; the handle column also under its shorter names.
HeaderRows ==
    { [BaseRow EXCEPT !.member_id = x[1], !.discord_username = x[2]] :
        x \in { <<<<"A">>, <<"ann">>>>, <<<<"A">>, <<>>>>, <<<<"B">>, <<"bob">>>> } }

MemberIdHeaders ==
    { <<"What's your Member ID", "?">>, <<"what's your member id", "?">>,
      <<"What's your Member ID">>, <<" ", "What's your Member ID", "?">> }

HandleHeaders ==
    { <<"What is your Discord username", "?">>, <<"What is your Discord Username", "?">>,
      <<"What is your Discord username">>, <<"Discord">>, <<"DISCORD">>,
      <<"Discord Username", "?">>, <<" ", "Discord Username">> }

HeaderFieldnames ==
    { [StandardFieldnames EXCEPT !.member_id = id, !.discord_username = handle] :
        id \in MemberIdHeaders, handle \in HandleHeaders }

\* "roster_headers": submissions without handles and a roster whose columns
\* are spelled as a candidate name or with another letter case, a "?" at the
\* end, or a blank around it.
RosterHeaderRows ==
    { [BaseRow EXCEPT !.member_id = id] : id \in {<<"A">>, <<"B">>} }

RosterIdHeaders ==
    { <<"Member ID">>, <<"MemberID">>, <<"MEMBER ID">>, <<"Member ID", "?">>,
      <<" ", "Member ID">> }

RosterHandleHeaders ==
    { <<"Discord Username">>, <<"Discord">>, <<"DISCORD">>,
      <<"Discord Username", "?">>, <<"Discord Username", " ">> }

HeaderRosters ==
    { [decodable |-> TRUE,
       fieldnames |-> [member_id |-> id, discord_username |-> handle],
       rows |-> rows] :
        id \in RosterIdHeaders, handle \in RosterHandleHeaders,
        rows \in { << [member_id |-> <<"A">>, discord_username |-> <<"ann_roster">>] >>,
                   << [member_id |-> <<"B">>, discord_username |-> <<"bob_roster">>],
                      [member_id |-> <<"A">>, discord_username |-> <<"ann_roster">>] >> } }

\* "views": records of every tier in any order: rows lacking deliverables at
\* weeks 1 and 2, rows with every deliverable done at weeks 1 and 2, and rows
\* that miss both submissions, are in Phase 1 at week 6, or report a blocker.
ViewRows ==
    { WithDeliverables(
        [BaseRow EXCEPT !.member_id = x[1], !.week = WeekCell(x[2]),
                        !._submission_type = x[3], !.blocked = x[4][1],
                        !.blocker_desc = x[4][2]], x[5]) :
        x \in { <<<<"A">>, 1, <<"Sunday">>, <<<<"No">>, <<>>>>, 0>>,
                <<<<"A">>, 2, <<"Sunday">>, <<<<"No">>, <<>>>>, 0>>,
                <<<<"B">>, 1, <<"Sunday">>, <<<<"No">>, <<>>>>, 0>>,
                <<<<"A">>, 1, <<"Sunday">>, <<<<"No">>, <<>>>>, 6>>,
                <<<<"A">>, 2, <<"Sunday">>, <<<<"No">>, <<>>>>, 6>>,
                <<<<"B">>, 1, <<"Sunday">>, <<<<"No">>, <<>>>>, 6>>,
                <<<<"A">>, 1, <<>>, <<<<"No">>, <<>>>>, 6>>,
                <<<<"B">>, 6, <<"Sunday">>, <<<<"No">>, <<>>>>, 6>>,
                <<<<"A">>, 1, <<"Sunday">>, <<<<"Yes">>, <<"stuck">>>>, 6>>,
                <<<<"B">>, 1, <<"Sunday">>, <<<<"Yes">>, <<"stuck">>>>, 6>> } }

\* "counts": one participant, weeks 1 and 2, every submission type, on the
\* first or the second contribution.
CountRows ==
    { [BaseRow EXCEPT !.week = WeekCell(w), !._submission_type = t,
                      !.contribution_num = ContributionCell(c)] :
        w \in 1..2, t \in SubmissionCells, c \in 1..2 }

\* "issues": one participant over weeks 1 to 3, without an issue URL or with
\* one of two; the second contribution at weeks 2 and 3, always with a URL.
IssueRows ==
    { [BaseRow EXCEPT !.week = WeekCell(w), !.issue_url = u] :
        w \in 1..3, u \in {<<>>, <<"issue/1">>, <<"issue/2">>} }
    \cup { [BaseRow EXCEPT !.week = WeekCell(w), !.issue_url = u,
                           !.contribution_num = ContributionCell(2)] :
              w \in 2..3, u \in {<<"issue/1">>, <<"issue/2">>} }

\* The families of each specification's runs.
TimelineClasses == {"phases", "contributions", "defaults", "malformed"}

SubmissionClasses == {"misses", "participants", "malformed"}

ClassifierClasses == {"single", "history", "malformed"}

\* "aliases": submissions whose handle column has the form's header or the
\* shorter name "Discord", with two handles for A and none for B, with or
\* without a roster that names A.
AliasRows ==
    { [BaseRow EXCEPT !.member_id = x[1], !.discord_username = x[2]] :
        x \in { <<<<"A">>, <<"ann">>>>, <<<<"A">>, <<"annie">>>>, <<<<"B">>, <<>>>> } }

AliasFieldnames ==
    { StandardFieldnames,
      [StandardFieldnames EXCEPT !.discord_username = <<"Discord">>] }

AliasRosters ==
    { [ decodable |-> TRUE, fieldnames |-> RosterFieldnames,
        rows |-> << [member_id |-> <<"A">>, discord_username |-> <<"ann_roster">>] >> ] }

\* "unusable_roster": the rows of "aliases" under the form's headers, with a
\* roster that names A and B but is not UTF-8, has a header row only, or has
\* no column for the participant id or for the handle; and the same roster
\* when it is usable.
UsableRoster ==
    [ decodable |-> TRUE, fieldnames |-> RosterFieldnames,
      rows |-> << [member_id |-> <<"A">>, discord_username |-> <<"ann_roster">>],
                  [member_id |-> <<"B">>, discord_username |-> <<"bob_roster">>] >> ]

UnusableRosters ==
    { [UsableRoster EXCEPT !.decodable = FALSE],
      [UsableRoster EXCEPT !.rows = <<>>],
      [UsableRoster EXCEPT !.fieldnames.member_id = <<"Name">>],
      [UsableRoster EXCEPT !.fieldnames.discord_username = <<"Handle">>] }

IdentityClasses == {"handles", "roster", "aliases", "unusable_roster", "malformed"}

CoercionClasses == {"contribution_cells", "phase_cells", "malformed"}

HeaderClasses == {"headers", "roster_headers", "malformed"}

ReportClasses == {"views", "malformed"}

\* The values of the submission-type column: one day, both days in either
\* order, another day, nothing.
TypeCells ==
    { <<"Wednesday">>, <<"Sunday">>, <<"Wednesday", " and ", "Sunday">>,
      <<"Sunday", " and ", "Wednesday">>, <<"Monday">>, <<>> }

\* "types": one participant in week 1, every value of the submission type.
TypeRows == { [BaseRow EXCEPT !._submission_type = t] : t \in TypeCells }

TrackerClasses == {"counts", "issues", "types", "malformed"}

RowsOf(class) ==
    CASE class = "phases" -> PhaseRows
      [] class = "contributions" -> ContributionRows
      [] class = "defaults" -> DefaultRows
      [] class = "misses" -> MissRows
      [] class = "participants" -> ParticipantRows
      [] class = "single" -> SingleRows
      [] class = "history" -> HistoryRows
      [] class = "malformed" -> MalformedRows
      [] class = "types" -> TypeRows
      [] class = "aliases" -> AliasRows
      [] class = "unusable_roster" -> AliasRows
      [] class = "handles" -> HandleRows
      [] class = "roster" -> RosterSubmissionRows
      [] class = "contribution_cells" -> ContributionCellRows
      [] class = "phase_cells" -> PhaseCellRows
      [] class = "headers" -> HeaderRows
      [] class = "roster_headers" -> RosterHeaderRows
      [] class = "views" -> ViewRows
      [] class = "counts" -> CountRows
      [] class = "issues" -> IssueRows

\* The largest table of each family.
RowCap(class) ==
    IF class \in {"single", "contribution_cells", "phase_cells"} THEN 1 ELSE MaxRows

\* The header rows of each family.
FieldnamesOf(class) ==
    IF class = "headers" THEN HeaderFieldnames
    ELSE IF class = "aliases" THEN AliasFieldnames
    ELSE {StandardFieldnames}

\* The rosters supplied with each family (None: no roster).
MastersOf(class) ==
    IF class = "roster" THEN {None} \cup {Some(master) : master \in Rosters}
    ELSE IF class = "roster_headers" THEN {Some(master) : master \in HeaderRosters}
    ELSE IF class = "aliases" THEN {None} \cup {Some(master) : master \in AliasRosters}
    ELSE IF class = "unusable_roster"
    THEN {Some(master) : master \in UnusableRosters \cup {UsableRoster}}
    ELSE {None}

---------------------------------------------------------------------------
(* The report: the tabs of the workbook.                                   *)

\* The positions of the records with the given grade_status, in input order
\* (the list comprehensions of the tier tabs).
WithStatus(studs, status) ==
    SelectSeq([i \in 1..Len(studs) |-> i], LAMBDA i : studs[i].grade_status = status)

\* priority_order.get(intervention_type, 99)
priority_order(intervention_type) ==
    CASE intervention_type = "MISSING_BOTH" -> 0
      [] intervention_type = "PHASE_CRITICAL" -> 1
      [] intervention_type = "STALLED" -> 2
      [] OTHER -> 99

\* _create_master_tab: one row per record, in input order.
_create_master_tab(studs) == [i \in 1..Len(studs) |-> i]

\* _create_at_risk_tab: the AT RISK records, sorted by intervention priority.
_create_at_risk_tab(studs) ==
    StableSort(WithStatus(studs, AT_RISK),
               [i \in 1..Len(studs) |-> <<priority_order(studs[i].intervention_type)>>])

\* Variant of _create_flagged_tab that sorts by weeks_in_phase ascending.
_create_flagged_tab_ascending(studs) ==
    StableSort(WithStatus(studs, FLAGGED),
               [i \in 1..Len(studs) |-> <<studs[i].weeks_in_phase>>])

\* _create_flagged_tab: the FLAGGED records, sorted by weeks_in_phase,
\* reverse=True (descending; equal keys keep their order).
_create_flagged_tab(studs) ==
    StableSort(WithStatus(studs, FLAGGED),
               [i \in 1..Len(studs) |-> <<0 - studs[i].weeks_in_phase>>])

\* _create_on_track_tab: the ON TRACK records, sorted by week, reverse=True.
_create_on_track_tab(studs) ==
    StableSort(WithStatus(studs, ON_TRACK),
               [i \in 1..Len(studs) |-> <<0 - studs[i].week>>])

\* The text cells of a record's row in the master tab.
TextCells(student) ==
    { student.member_id, student.discord_username, student.current_phase,
      student.issue_url, student.mr_url, student.blocker_desc,
      student.issue_url_previous_week }

\* ws.cell(..., value=value) raises IllegalCharacterError: a text cell holds a
\* control character.
IllegalCell(student) == \E value \in TextCells(student) : Contains(value, <<"NUL">>)

\* The tabs, each a list of records (positions in `students`) in row order.
Workbook(studs) ==
    [ master |-> _create_master_tab(studs),
      at_risk |-> _create_at_risk_tab(studs),
      flagged |-> _create_flagged_tab(studs),
      on_track |-> _create_on_track_tab(studs) ]

\* The workbook at the moment _create_master_tab raises: the rows before the
\* first record with an illegal cell.
PartialWorkbook(studs) ==
    LET first == CHOOSE i \in 1..Len(studs) :
                     IllegalCell(studs[i]) /\ \A j \in 1..(i - 1) : ~IllegalCell(studs[j])
    IN  [ master |-> [i \in 1..(first - 1) |-> i],
          at_risk |-> <<>>, flagged |-> <<>>, on_track |-> <<>> ]

---------------------------------------------------------------------------
(* SchedulerService: times are whole seconds since a Monday 00:00:00 UTC.  *)

SecondsPerMinute == 60

SecondsPerHour == 3600

SecondsPerDay == 86400

\* The fields of a datetime.
SecondOf(t) == t % SecondsPerMinute

MinuteOf(t) == (t \div SecondsPerMinute) % 60

HourOf(t) == (t \div SecondsPerHour) % 24

\* datetime.weekday(): 0 = Monday
WeekdayOf(t) == (t \div SecondsPerDay) % 7

\* The midnight that starts the day of t.
DateOf(t) == t - (t % SecondsPerDay)

\* A time of day, written as in the log lines: hour, minute, second.
At(h, m, sec) == h * SecondsPerHour + m * SecondsPerMinute + sec

\* config.get(key, default)
Get(config, key, default) == IF key \in DOMAIN config THEN config[key] ELSE default

\* calculate_next_run, 'minutely' branch, with datetime.now() = now.
MinutelyNextRun(minutes, now) ==
    LET base == now - SecondOf(now)
        current_minute == MinuteOf(base)
        next_aligned == ((current_minute \div minutes) + 1) * minutes
        rolled == IF next_aligned >= 60
                  THEN base + (next_aligned \div 60) * SecondsPerHour
                  ELSE base
        minute == IF next_aligned >= 60 THEN next_aligned % 60 ELSE next_aligned
    IN  rolled - MinuteOf(rolled) * SecondsPerMinute + minute * SecondsPerMinute

\* calculate_next_run, 'hourly' branch.
HourlyNextRun(hours, now) ==
    LET base == now - (now % SecondsPerHour)
        current_hour == HourOf(base)
        next_aligned == ((current_hour \div hours) + 1) * hours
        rolled == IF next_aligned >= 24
                  THEN base + (next_aligned \div 24) * SecondsPerDay
                  ELSE base
        hour == IF next_aligned >= 24 THEN next_aligned % 24 ELSE next_aligned
    IN  DateOf(rolled) + hour * SecondsPerHour

\* calculate_next_run, 'daily' branch.
DailyNextRun(target_hour, target_minute, now) ==
    LET next_run == DateOf(now) + At(target_hour, target_minute, 0)
    IN  IF next_run <= now THEN next_run + SecondsPerDay ELSE next_run

\* calculate_next_run, 'weekly' branch.
WeeklyNextRun(target_day, target_hour, target_minute, now) ==
    LET ahead == target_day - WeekdayOf(now)
        days_ahead ==
            IF ahead < 0 \/ (ahead = 0 /\ HourOf(now) * 60 + MinuteOf(now)
                                              >= target_hour * 60 + target_minute)
            THEN ahead + 7 ELSE ahead
    IN  DateOf(now + days_ahead * SecondsPerDay) + At(target_hour, target_minute, 0)

\* calculate_next_run(schedule_type, config) called when the clock reads now.
calculate_next_run(schedule_type, config, now) ==
    CASE schedule_type = "minutely" -> MinutelyNextRun(Get(config, "minutes", 5), now)
      [] schedule_type = "hourly" -> HourlyNextRun(Get(config, "hours", 1), now)
      [] schedule_type = "daily" ->
            DailyNextRun(Get(config, "hour", 9), Get(config, "minute", 0), now)
      [] schedule_type = "weekly" ->
            WeeklyNextRun(Get(config, "day", 0), Get(config, "hour", 9),
                          Get(config, "minute", 0), now)
      [] OTHER -> now + SecondsPerHour

\* get_interval_delta
get_interval_delta(schedule_type, config) ==
    CASE schedule_type = "minutely" -> Get(config, "minutes", 5) * SecondsPerMinute
      [] schedule_type = "hourly" -> Get(config, "hours", 1) * SecondsPerHour
      [] schedule_type = "daily" -> SecondsPerDay
      [] schedule_type = "weekly" -> 7 * SecondsPerDay
      [] OTHER -> SecondsPerHour

\* The threshold_seconds default of is_recently_sent.
RecentThreshold == 30

\* is_recently_sent(last_sent) called when the clock reads now.
is_recently_sent(last_sent, now) ==
    IF last_sent = None THEN FALSE
    ELSE now - TheValue(last_sent) < RecentThreshold

---------------------------------------------------------------------------
(* GitLabRSSBot.check_scheduled_messages and the announce commands.        *)

\* The intervals of the 'minutely' schedules of the runs: values that
\* _parse_schedule_config accepts (1 <= N <= 1440).
MinuteIntervals == {1, 7, 45}

\* The type and config of the schedules the announce command creates.
ScheduleKinds ==
    { [type |-> "minutely", config |-> [minutes |-> n]] : n \in MinuteIntervals }

\* A schedule as bot.scheduled_messages holds it.
Schedule(type, config, next_run, active, last_sent) ==
    [ type |-> type, config |-> config, next_run |-> next_run,
      active |-> active, last_sent |-> last_sent ]

\* The times at which the bot starts.
StartClocks == { At(0, 55, 30), At(0, 59, 50), At(23, 59, 10) }

\* load_scheduled_messages: the schedules of the saved file, which may hold
\* any flag and any times (or none).
SavedSchedules ==
    { Schedule("minutely", [minutes |-> 1], Some(At(0, 56, 0)), TRUE, None),
      Schedule("minutely", [minutes |-> 7], Some(At(0, 56, 0)), TRUE, None),
      Schedule("minutely", [minutes |-> 1], Some(At(0, 56, 0)), TRUE,
               Some(At(0, 55, 45))),
      Schedule("hourly", [hours |-> 1], Some(At(1, 0, 0)), TRUE,
               Some(At(0, 0, 0))),
      Schedule("daily", [hour |-> 0, minute |-> 56], Some(At(0, 56, 0)), TRUE, None),
      Schedule("weekly", [day |-> 0, hour |-> 0, minute |-> 30],
               Some(At(0, 30, 0)), FALSE, None),
      Schedule("minutely", [minutes |-> 90], None, TRUE, None) }

\* The files load_scheduled_messages may find: no schedule, or one.
SavedFiles == {<<>>} \cup { <<sched>> : sched \in SavedSchedules }

\* How late asyncio.sleep returns, in seconds after the minute mark: the
\* runs wake on the mark.
WakeLags == {0}

\* How long _send_scheduled_announcement takes, in seconds.
SendDurations == {0, 61}

\* The loop before check_scheduled_messages.start().
LoopOff == [ pc |-> "off", now |-> 0, ticks |-> 0, pending |-> <<>>,
             detached |-> <<>> ]

\* The scheduler of a run that only processes a tracker file.
SchedulerOff ==
    /\ clock = 0
    /\ scheduled_messages = <<>>
    /\ loop = LoopOff
    /\ sent = <<>>
    /\ issued = 0
    /\ last_calculation = None

\* The tracker of a run that only schedules announcements.
TrackerIdle ==
    /\ input_class = "none"
    /\ fieldnames = <<>>
    /\ master_data = None
    /\ raw_rows = <<>>
    /\ discord_lookup = <<>>
    /\ students = <<>>
    /\ workbook = None
    /\ pc = "idle"
    /\ result = None

\* list(self.scheduled_messages.items()): the keys in order.
RECURSIVE Items(_)
Items(keys) ==
    IF keys = {} THEN <<>>
    ELSE LET k == CHOOSE x \in keys : \A y \in keys : x <= y
         IN  <<k>> \o Items(keys \ {k})

\* The dict of the snapshot's entry schedule_id: the one bot.scheduled_messages
\* holds, or the one a cancel command removed from it during the tick.
Sched(schedule_id) ==
    IF schedule_id \in DOMAIN scheduled_messages
    THEN scheduled_messages[schedule_id]
    ELSE loop.detached[schedule_id]

\* The loop's `now >= next_run` for an active schedule that has a next_run.
Due(sched, now) ==
    /\ sched.active
    /\ sched.next_run # None
    /\ now >= TheValue(sched.next_run)

\* The `while next_run_candidate <= now` loop.
RECURSIVE AdvancePast(_, _, _)
AdvancePast(next_run_candidate, now, delta) ==
    IF next_run_candidate <= now
    THEN AdvancePast(next_run_candidate + delta, now, delta)
    ELSE next_run_candidate

\* The record of one call of calculate_next_run.
Calculation(schedule_type, config, now) ==
    Some([ type |-> schedule_type, config |-> config, now |-> now,
           result |-> calculate_next_run(schedule_type, config, now) ])

\* The pair of bot.scheduled_messages and the detached dicts after the dict of
\* schedule_id became sched.
Stored(schedule_id, sched) ==
    IF schedule_id \in DOMAIN scheduled_messages
    THEN [ messages |-> [scheduled_messages EXCEPT ![schedule_id] = sched],
           detached |-> loop.detached ]
    ELSE [ messages |-> scheduled_messages,
           detached |-> [loop.detached EXCEPT ![schedule_id] = sched] ]

\* `await asyncio.sleep(seconds_until_next_minute)` returns and the loop takes
\* the tick time and the snapshot of the schedules.
WakeUp ==
    /\ loop.pc = "sleeping"
    /\ loop.ticks < MaxTicks
    /\ \E lag \in WakeLags :
         /\ clock' = clock + (SecondsPerMinute - SecondOf(clock)) + lag
         /\ loop' = [ pc |-> "checking", now |-> clock', ticks |-> loop.ticks + 1,
                      pending |-> Items(DOMAIN scheduled_messages),
                      detached |-> <<>> ]
    /\ UNCHANGED <<tracker_vars, issued, scheduled_messages, sent, last_calculation>>

\* One pass of the for loop that ends in `continue` or finds the schedule not
\* due.
SkipSchedule ==
    /\ loop.pc = "checking"
    /\ loop.pending # <<>>
    /\ LET sched == Sched(Head(loop.pending))
       IN  \/ ~Due(sched, loop.now)
           \/ is_recently_sent(sched.last_sent, clock)
    /\ loop' = [loop EXCEPT !.pending = Tail(@)]
    /\ UNCHANGED <<tracker_vars, issued, clock, scheduled_messages, sent, last_calculation>>

\* The loop reaches `await self._send_scheduled_announcement(...)`.
BeginSend ==
    /\ loop.pc = "checking"
    /\ loop.pending # <<>>
    /\ LET sched == Sched(Head(loop.pending))
       IN  /\ Due(sched, loop.now)
           /\ ~is_recently_sent(sched.last_sent, clock)
           /\ sent' = Append(sent, [ id |-> Head(loop.pending), tick |-> loop.now,
                                     due |-> sched.next_run,
                                     active |-> sched.active ])
    /\ loop' = [loop EXCEPT !.pc = "sending"]
    /\ UNCHANGED <<tracker_vars, issued, clock, scheduled_messages, last_calculation>>

\* Variant of AfterSend that leaves next_run as it was.
AfterSend_keeps_next_run(sched, now, at) ==
    [sched EXCEPT !.last_sent = Some(now)]

\* The schedule after the statements that follow the send: last_sent and the
\* next run, calculated when the clock reads at.
AfterSend(sched, now, at) ==
    [sched EXCEPT
       !.last_sent = Some(now),
       !.next_run = Some(AdvancePast(calculate_next_run(sched.type, sched.config, at),
                                     now,
                                     get_interval_delta(sched.type, sched.config)))]

\* The send returns: last_sent, next_run and save_scheduled_messages.
FinishSend ==
    /\ loop.pc = "sending"
    /\ \E d \in SendDurations :
         /\ clock' = clock + d
         /\ LET schedule_id == Head(loop.pending)
                sched == Sched(schedule_id)
                stored == Stored(schedule_id, AfterSend(sched, loop.now, clock'))
            IN  /\ scheduled_messages' = stored.messages
                /\ loop' = [loop EXCEPT !.pc = "checking", !.pending = Tail(@),
                                        !.detached = stored.detached]
                /\ last_calculation' = Calculation(sched.type, sched.config, clock')
    /\ UNCHANGED <<tracker_vars, issued, sent>>

\* The for loop is over and the loop goes back to sleep.
EndTick ==
    /\ loop.pc = "checking"
    /\ loop.pending = <<>>
    /\ loop' = [loop EXCEPT !.pc = "sleeping", !.detached = <<>>]
    /\ UNCHANGED <<tracker_vars, issued, clock, scheduled_messages, sent, last_calculation>>

\* The commands run while the loop awaits: asleep or in a send.
LoopAwaits == loop.pc \in {"sleeping", "sending"}

\* `!announce schedule`: a new active schedule with its first next_run.
CreateSchedule ==
    /\ LoopAwaits
    /\ issued < MaxSchedules
    /\ issued' = issued + 1
    /\ \E kind \in ScheduleKinds :
         LET schedule_id == issued'
             next_run == calculate_next_run(kind.type, kind.config, clock)
         IN  /\ scheduled_messages' =
                  [ k \in DOMAIN scheduled_messages \cup {schedule_id} |->
                      IF k = schedule_id
                      THEN Schedule(kind.type, kind.config, Some(next_run), TRUE, None)
                      ELSE scheduled_messages[k] ]
             /\ last_calculation' = Calculation(kind.type, kind.config, clock)
    /\ UNCHANGED <<tracker_vars, clock, loop, sent>>

\* The loop's record after schedule ids left bot.scheduled_messages: those the
\* snapshot of the tick still holds keep their dicts.
Detach(ids) ==
    LET kept == { k \in ids : \E i \in 1..Len(loop.pending) : loop.pending[i] = k }
    IN  [loop EXCEPT !.detached =
           [ k \in DOMAIN loop.detached \cup kept |->
               IF k \in kept THEN scheduled_messages[k] ELSE loop.detached[k] ]]

\* `!announce cancel <schedule_id>`
CancelSchedule ==
    /\ LoopAwaits
    /\ \E schedule_id \in DOMAIN scheduled_messages :
         /\ scheduled_messages' =
              [ k \in DOMAIN scheduled_messages \ {schedule_id} |->
                  scheduled_messages[k] ]
         /\ loop' = Detach({schedule_id})
    /\ UNCHANGED <<tracker_vars, issued, clock, sent, last_calculation>>

\* `!announce cancelall`
CancelAll ==
    /\ LoopAwaits
    /\ scheduled_messages # <<>>
    /\ scheduled_messages' = <<>>
    /\ loop' = Detach(DOMAIN scheduled_messages)
    /\ UNCHANGED <<tracker_vars, issued, clock, sent, last_calculation>>

\* The bot starts: the saved schedules are loaded and the loop begins.
InitScheduler ==
    /\ TrackerIdle
    /\ clock \in StartClocks
    /\ scheduled_messages \in SavedFiles
    /\ loop = [LoopOff EXCEPT !.pc = "sleeping"]
    /\ sent = <<>>
    /\ issued = Len(scheduled_messages)
    /\ last_calculation = None

NextScheduler ==
    \/ WakeUp
    \/ SkipSchedule
    \/ BeginSend
    \/ FinishSend
    \/ EndTick
    \/ CreateSchedule
    \/ CancelSchedule
    \/ CancelAll

SpecScheduler == InitScheduler /\ [][NextScheduler]_vars

---------------------------------------------------------------------------
(* TrackerDataProcessor.process, stage by stage.                           *)

\* ProcessingResult: success flag, output bytes or None, error message, row
\* count (no output and zero rows unless given).
ProcessingResult(success, output_data, error_message, rows_processed) ==
    [ success |-> success, output_data |-> output_data,
      error_message |-> error_message, rows_processed |-> rows_processed ]

\* process() has not returned.
NoResult == None

\* The `except Exception` clause of process().
ProcessingError == Some(ProcessingResult(FALSE, None, "Processing error", 0))

Start ==
    /\ fieldnames \in FieldnamesOf(input_class)
    /\ master_data \in MastersOf(input_class)
    /\ raw_rows = <<>>
    /\ discord_lookup = <<>>
    /\ students = <<>>
    /\ workbook = None
    /\ pc = "read"
    /\ result = NoResult
    /\ SchedulerOff

Init == input_class \in TimelineClasses /\ Start

InitSubmissions == input_class \in SubmissionClasses /\ Start

InitClassify == input_class \in ClassifierClasses /\ Start

InitIdentity == input_class \in IdentityClasses /\ Start

InitCoercion == input_class \in CoercionClasses /\ Start

InitHeaders == input_class \in HeaderClasses /\ Start

InitReport == input_class \in ReportClasses /\ Start

InitTrackers == input_class \in TrackerClasses /\ Start

\* data.decode('utf-8-sig') raises on bytes that are not UTF-8.
DecodeError ==
    /\ pc = "read"
    /\ raw_rows = <<>>
    /\ pc' = "failed"
    /\ result' = ProcessingError
    /\ UNCHANGED <<scheduler_vars, input_class, fieldnames, master_data, raw_rows, discord_lookup,
                   students, workbook>>

\* list(csv_reader): the reader yields one more data row.
ReadRow ==
    /\ pc = "read"
    /\ Len(raw_rows) < RowCap(input_class)
    /\ \E row \in RowsOf(input_class) : raw_rows' = Append(raw_rows, row)
    /\ UNCHANGED <<scheduler_vars, input_class, fieldnames, master_data, discord_lookup, students,
                   workbook, pc, result>>

\* Variant of the empty-table branch that goes on to report on no records.
EmptyInput_empty_report ==
    /\ pc = "read"
    /\ raw_rows = <<>>
    /\ workbook' = Some(Workbook(<<>>))
    /\ result' = Some(ProcessingResult(TRUE, workbook', "", 0))
    /\ pc' = "done"
    /\ UNCHANGED <<scheduler_vars, input_class, fieldnames, master_data, raw_rows, discord_lookup,
                   students>>

\* "if not raw_rows": the failure result for a table without data rows.
EmptyInput ==
    /\ pc = "read"
    /\ raw_rows = <<>>
    /\ pc' = "failed"
    /\ result' = Some(ProcessingResult(FALSE, None, "CSV file is empty", 0))
    /\ UNCHANGED <<scheduler_vars, input_class, fieldnames, master_data, raw_rows, discord_lookup,
                   students, workbook>>

\* An exception in _build_discord_lookup or _transform_records: the first row
\* has the key None and no handle column is spelled as a candidate name, or a
\* row has the key None and a CSV_COLUMN_MAP header matches none of its headers.
TransformRaises(rows) ==
    \/ FindColumnRaises(rows[1], fieldnames, DISCORD_USERNAME_COLUMNS)
    \/ \E i \in 1..Len(rows), k \in 1..Len(CSV_COLUMN_MAP) :
          FlexibleRaises(rows[i], CSV_HEADER(CSV_COLUMN_MAP[k]))

\* The lookups, their merge, then _transform_records.
TransformRecords ==
    /\ pc = "read"
    /\ raw_rows # <<>>
    /\ ~TransformRaises(raw_rows)
    /\ discord_lookup' = BuildDiscordLookup(master_data, raw_rows)
    /\ students' = _transform_records(raw_rows, discord_lookup')
    /\ pc' = "transformed"
    /\ UNCHANGED <<scheduler_vars, input_class, fieldnames, master_data, raw_rows, workbook, result>>

\* The same stage when it raises: the exception reaches the except clause.
TransformError ==
    /\ pc = "read"
    /\ raw_rows # <<>>
    /\ TransformRaises(raw_rows)
    /\ pc' = "failed"
    /\ result' = ProcessingError
    /\ UNCHANGED <<scheduler_vars, input_class, fieldnames, master_data, raw_rows, discord_lookup,
                   students, workbook>>

CalculateDerivedFields ==
    /\ pc = "transformed"
    /\ students' = _calculate_derived_fields(students)
    /\ pc' = "derived"
    /\ UNCHANGED <<scheduler_vars, input_class, fieldnames, master_data, raw_rows, discord_lookup,
                   workbook, result>>

CalculateGradeStatus ==
    /\ pc = "derived"
    /\ students' = _calculate_grade_status(students)
    /\ pc' = "graded"
    /\ UNCHANGED <<scheduler_vars, input_class, fieldnames, master_data, raw_rows, discord_lookup,
                   workbook, result>>

\* The tabs are created, the workbook is saved and the success result returned.
CreateWorkbook ==
    /\ pc = "graded"
    /\ \A i \in 1..Len(students) : ~IllegalCell(students[i])
    /\ workbook' = Some(Workbook(students))
    /\ result' = Some(ProcessingResult(TRUE, workbook', "", Len(students)))
    /\ pc' = "done"
    /\ UNCHANGED <<scheduler_vars, input_class, fieldnames, master_data, raw_rows, discord_lookup,
                   students>>

\* Variant of the failing report stage that hands back the tabs written so far.
WorkbookError_returns_partial ==
    /\ pc = "graded"
    /\ \E i \in 1..Len(students) : IllegalCell(students[i])
    /\ workbook' = Some(PartialWorkbook(students))
    /\ result' = Some(ProcessingResult(FALSE, workbook', "Processing error",
                                       Len(PartialWorkbook(students).master)))
    /\ pc' = "failed"
    /\ UNCHANGED <<scheduler_vars, input_class, fieldnames, master_data, raw_rows, discord_lookup,
                   students>>

\* Writing a cell raises while the master tab is filled: the except clause
\* returns the failure result and the workbook is dropped.
WorkbookError ==
    /\ pc = "graded"
    /\ \E i \in 1..Len(students) : IllegalCell(students[i])
    /\ workbook' = Some(PartialWorkbook(students))
    /\ result' = ProcessingError
    /\ pc' = "failed"
    /\ UNCHANGED <<scheduler_vars, input_class, fieldnames, master_data, raw_rows, discord_lookup,
                   students>>

Next ==
    \/ DecodeError
    \/ ReadRow
    \/ EmptyInput
    \/ TransformRecords
    \/ TransformError
    \/ CalculateDerivedFields
    \/ CalculateGradeStatus
    \/ CreateWorkbook
    \/ WorkbookError

\* Runs over the phase and contribution families.
Spec == Init /\ [][Next]_vars

\* Runs over the submission and participant families.
SpecSubmissions == InitSubmissions /\ [][Next]_vars

\* Runs over the classifier families.
SpecClassify == InitClassify /\ [][Next]_vars

\* Runs over the handle and roster families.
SpecIdentity == InitIdentity /\ [][Next]_vars

\* Runs over the field coercion families.
SpecCoercion == InitCoercion /\ [][Next]_vars

\* Runs over the header spelling families.
SpecHeaders == InitHeaders /\ [][Next]_vars

\* Runs over the tier view family.
SpecReport == InitReport /\ [][Next]_vars

\* Runs over the submission count and issue families.
SpecTrackers == InitTrackers /\ [][Next]_vars

---------------------------------------------------------------------------
(* Properties of the risk classifier.                                      *)

Graded == pc = "graded"

Records == {students[i] : i \in 1..Len(students)}

PhaseNumber(r) == _get_phase_number(r.current_phase)

\* The four AT RISK conditions, read off a record.
MissingBoth(r) == ~r.wed_submitted /\ ~r.sun_submitted

EarlyPhaseLate(r) == r.week >= 6 /\ PhaseNumber(r) <= 2

OutOfTime(r) == r.weeks_remaining < 2 /\ PhaseNumber(r) < 4

BlockedWithReason(r) == r.blocked /\ r.blocker_desc # <<>>

MeetsAtRisk(r) ==
    MissingBoth(r) \/ EarlyPhaseLate(r) \/ OutOfTime(r) \/ BlockedWithReason(r)

AtRiskCodes == {"MISSING_BOTH", "PHASE_CRITICAL", "STALLED"}

FlaggedCodes ==
    { "MISSING_PREVIOUS_PHASE", "ILLOGICAL_PHASE_CHANGE", "INCORRECT_PHASE_URL",
      "MISSING_PREVIOUS_SUBMISSION", "MISSING_DELIVERABLES", "NO_ACTIVITY",
      "TIMELINE_COMPRESSED" }

\* The seven FLAGGED conditions in the order of the rule list, each with its code.
FlaggedRules(r) ==
    << <<r._missing_previous_phase = Some(TRUE), "MISSING_PREVIOUS_PHASE">>,
       <<r._illogical_phase_change = Some(TRUE), "ILLOGICAL_PHASE_CHANGE">>,
       <<PhaseNumber(r) = 3 /\ Strip(r.mr_url) # <<>>, "INCORRECT_PHASE_URL">>,
       <<r.consecutive_misses > 0, "MISSING_PREVIOUS_SUBMISSION">>,
       <<r.deliverables_complete < r.deliverables_expected, "MISSING_DELIVERABLES">>,
       <<r.days_since_commit > 7, "NO_ACTIVITY">>,
       <<r.timeline_type = "Compressed", "TIMELINE_COMPRESSED">> >>

MeetsFlagged(r) == \E k \in 1..7 : FlaggedRules(r)[k][1]

\* C1: a record that meets an AT RISK condition is graded AT RISK with an
\* AT RISK code, whatever FLAGGED conditions it also meets; it never carries a
\* FLAGGED code.
C1_AtRiskOutranksFlagged ==
    Graded =>
        \A r \in Records :
            MeetsAtRisk(r) =>
                /\ r.grade_status = AT_RISK
                /\ r.intervention_type \in AtRiskCodes
                /\ r.intervention_type \notin FlaggedCodes

\* A graded record that meets an AT RISK and a FLAGGED condition at once.
C1_Witness ==
    /\ Graded
    /\ \E r \in Records :
          MeetsAtRisk(r) /\ MeetsFlagged(r) /\ r.grade_status = AT_RISK

\* C2: the AT RISK code is that of the first rule that holds, in the order
\* MISSING_BOTH, PHASE_CRITICAL (week >= 6, phase <= 2), PHASE_CRITICAL
\* (weeks_remaining < 2, phase < 4), STALLED; one code per record.
C2_AtRiskFirstMatch ==
    Graded =>
        \A r \in Records :
            /\ MissingBoth(r) => r.intervention_type = "MISSING_BOTH"
            /\ ~MissingBoth(r) /\ EarlyPhaseLate(r)
                  => r.intervention_type = "PHASE_CRITICAL"
            /\ ~MissingBoth(r) /\ ~EarlyPhaseLate(r) /\ OutOfTime(r)
                  => r.intervention_type = "PHASE_CRITICAL"
            /\ ~MissingBoth(r) /\ ~EarlyPhaseLate(r) /\ ~OutOfTime(r)
               /\ BlockedWithReason(r)
                  => r.intervention_type = "STALLED"

\* A blocked record with a reason and both submission flags false, graded
\* MISSING_BOTH.
C2_Witness ==
    /\ Graded
    /\ \E r \in Records :
          /\ BlockedWithReason(r) /\ MissingBoth(r)
          /\ r.intervention_type = "MISSING_BOTH"

\* The code of the first FLAGGED rule that holds from rule k on, "" if none.
RECURSIVE FirstFlagged(_, _)
FirstFlagged(r, k) ==
    IF k > 7 THEN ""
    ELSE IF FlaggedRules(r)[k][1] THEN FlaggedRules(r)[k][2]
    ELSE FirstFlagged(r, k + 1)

\* Scenario A: a participant's only record, week 1, Phase 1, Wednesday
\* submitted, Sunday not, not blocked, no deliverable complete.
ScenarioA(r) ==
    /\ Len(students) = 1
    /\ r.week = 1 /\ PhaseNumber(r) = 1
    /\ r.wed_submitted /\ ~r.sun_submitted
    /\ ~r.blocked /\ r.deliverables_complete = 0

\* C3: a record that meets no AT RISK condition carries the code of the first
\* FLAGGED rule that holds, in the order of the rule list, and is FLAGGED when
\* there is one; the scenario-A record is FLAGGED with MISSING_DELIVERABLES.
C3_FlaggedFirstMatch ==
    Graded =>
        \A r \in Records :
            /\ ~MeetsAtRisk(r) =>
                  /\ r.intervention_type = FirstFlagged(r, 1)
                  /\ MeetsFlagged(r) => r.grade_status = FLAGGED
            /\ ScenarioA(r) =>
                  /\ r.grade_status = FLAGGED
                  /\ r.intervention_type = "MISSING_DELIVERABLES"

\* The scenario-A record, graded.
C3_Witness ==
    /\ Graded
    /\ \E r \in Records : ScenarioA(r) /\ r.intervention_type = "MISSING_DELIVERABLES"

\* C4: every record has one of the three tiers and a code that agrees with it:
\* ON TRACK iff no code, AT RISK iff an AT RISK code, FLAGGED iff a FLAGGED code.
C4_TierMatchesCode ==
    Graded =>
        \A r \in Records :
            /\ r.grade_status \in {ON_TRACK, FLAGGED, AT_RISK}
            /\ r.intervention_type \in AtRiskCodes \cup FlaggedCodes \cup {""}
            /\ r.grade_status = ON_TRACK <=> r.intervention_type = ""
            /\ r.grade_status = AT_RISK <=> r.intervention_type \in AtRiskCodes
            /\ r.grade_status = FLAGGED <=> r.intervention_type \in FlaggedCodes

\* A graded table with a record of each tier.
C4_Witness ==
    /\ Graded
    /\ \E r \in Records : r.grade_status = AT_RISK /\ MeetsFlagged(r)
    /\ \E r \in Records : r.grade_status = FLAGGED
    /\ \E r \in Records : r.grade_status = ON_TRACK

---------------------------------------------------------------------------
(* Properties of the timeline engine.                                      *)

\* The engine has run on `students`.
Timed == pc \in {"derived", "graded"}

\* What process() holds in `students` at the current stage for input `rows`.
StudentsFor(rows) ==
    LET derived == _calculate_derived_fields(
                       _transform_records(rows, BuildDiscordLookup(master_data, rows)))
    IN  IF pc = "graded" THEN _calculate_grade_status(derived) ELSE derived

\* How many records of a table equal r.
Occurrences(table, r) == Cardinality({i \in 1..Len(table) : table[i] = r})

SameRecords(t1, t2) ==
    /\ Len(t1) = Len(t2)
    /\ \A i \in 1..Len(t1) : Occurrences(t1, t1[i]) = Occurrences(t2, t1[i])

\* The rows in the order perm[1], perm[2], ...
Reordered(rows, perm) == [k \in 1..Len(rows) |-> rows[perm[k]]]

\* C5: the records computed from any reordering of the input rows are the
\* records computed from the rows as given (the same records with the same
\* derived fields), also when records share a week number.
C5_OrderIndependent ==
    Timed =>
        \A perm \in Permutations(1..Len(raw_rows)) :
            SameRecords(StudentsFor(Reordered(raw_rows, perm)), students)

\* The input positions of the records of participant member_id.
PositionsOf(member_id) ==
    {i \in 1..Len(students) : MemberKey(students[i]) = member_id}

\* The positions of a set, ascending.
InInputOrder(positions) ==
    SelectSeq([i \in 1..Len(students) |-> i], LAMBDA i : i \in positions)

\* C6: each participant's records are what process() computes from that
\* participant's rows alone: the rows of other participants change no derived
\* field, tier or code (so two inputs that agree on a participant's rows give
\* that participant the same records).
C6_NoCrossParticipantDependency ==
    Graded =>
        \A member_id \in MemberIds(students) :
            LET own == InInputOrder(PositionsOf(member_id))
                alone == StudentsFor([k \in 1..Len(own) |-> raw_rows[own[k]]])
            IN  Len(own) < Len(students) =>
                    \A k \in 1..Len(own) : students[own[k]] = alone[k]

\* Two records of A around a record of B in A's week, all graded.
C6_Witness ==
    /\ pc = "graded"
    /\ Len(students) = 3
    /\ MemberKey(students[1]) = <<"A">>
    /\ MemberKey(students[2]) = <<"B">>
    /\ MemberKey(students[3]) = <<"A">>
    /\ students[2].week = students[3].week
    /\ students[3].consecutive_misses > 0

\* C7: weeks_in_phase >= 1 on every record, whether or not the engine
\* processed it.
C7_WeeksInPhasePositive ==
    \A i \in 1..Len(students) : students[i].weeks_in_phase >= 1

\* After the engine: a record with week 0, two records of one participant in
\* one week, a record with an unrecognised phase, a record with a blank id.
C7_Witness ==
    /\ Timed
    /\ \E i, j \in 1..Len(students) :
          /\ i # j
          /\ students[i].week = 0 /\ students[j].week = 0
          /\ MemberKey(students[i]) = MemberKey(students[j])
          /\ MemberKey(students[i]) # <<>>
          /\ PhaseNumber(students[i]) = 0
    /\ \E i \in 1..Len(students) : MemberKey(students[i]) = <<>>

\* Position i is a record of a participant (its id is not blank).
Processed(i) == MemberKey(students[i]) # <<>>

\* The records of i's participant, and those of them in week w.
SameMember(i) == PositionsOf(MemberKey(students[i]))

InWeek(i, w) == {j \in SameMember(i) : students[j].week = w}

\* j comes before i in the participant's week-sorted timeline (the sort is
\* stable: records of one week keep their input order).
Before(j, i) ==
    \/ students[j].week < students[i].week
    \/ students[j].week = students[i].week /\ j < i

\* The records before i in the timeline of i's participant.
Earlier(i) == {j \in SameMember(i) : Before(j, i)}

\* j is the last of a set of records of one timeline.
LastOf(j, positions) ==
    /\ j \in positions
    /\ \A k \in positions : k = j \/ Before(k, j)

\* The last record of week w in the timeline of i's participant.
LastInWeek(i, w) == CHOOSE j \in InWeek(i, w) : \A k \in InWeek(i, w) : k <= j

\* C8 as stated: consecutive_misses is 0 on a record whose own Sunday flag is
\* true, and on a record whose participant has a week - 1 record with the
\* Sunday flag true.
C8_ZeroIfOwnOrPreviousSunday ==
    Timed =>
        \A i \in 1..Len(students) :
            ( /\ Processed(i)
              /\ \/ students[i].sun_submitted
                 \/ \E j \in InWeek(i, students[i].week - 1) : students[j].sun_submitted )
            => students[i].consecutive_misses = 0

\* C8 as amended: consecutive_misses is 0 on a record when the last record
\* (in timeline order) that its participant has for week - 1 carries the
\* Sunday flag; the record's own flag plays no part.
C8_ZeroIfPreviousWeekSunday ==
    Timed =>
        \A i \in 1..Len(students) :
            LET w == students[i].week - 1
            IN  ( /\ Processed(i)
                  /\ InWeek(i, w) # {}
                  /\ students[LastInWeek(i, w)].sun_submitted )
                => students[i].consecutive_misses = 0

\* A week-2 record without a Sunday submission of its own, after a week whose
\* last record has one: no miss is counted on it.
C8_Witness ==
    /\ Timed
    /\ \E i \in 1..Len(students) :
          /\ Processed(i)
          /\ students[i].week = 2
          /\ ~students[i].sun_submitted
          /\ InWeek(i, 1) # {}
          /\ students[LastInWeek(i, 1)].sun_submitted
          /\ students[i].consecutive_misses = 0

\* The records of the current contribution up to and including i: the records
\* j of the timeline with no change of contribution number from j to i.
CurrentContribution(i) ==
    LET upto == Earlier(i) \cup {i}
    IN  {j \in upto :
            \A k \in upto :
                (k = j \/ Before(j, k))
                    => students[k].contribution_num = students[i].contribution_num}

\* Scenario B: the participant's records are weeks 1 and 2 at Phase 1 and
\* week 3 (record i) at Phase 3.
ScenarioB(i) ==
    /\ students[i].week = 3 /\ PhaseNumber(students[i]) = 3
    /\ Cardinality(SameMember(i)) = 3
    /\ \A w \in 1..2 : \E j \in InWeek(i, w) : PhaseNumber(students[j]) = 1

\* C9: missing_previous_phase is true on a participant's record exactly when
\* its phase number p has p - 1 >= 1 and no record of the current contribution
\* up to and including it has phase number p - 1; such a record is FLAGGED
\* with MISSING_PREVIOUS_PHASE unless it is AT RISK; the week-3 record of
\* scenario B is one.
C9_MissingPreviousPhase ==
    Timed =>
        \A i \in 1..Len(students) :
            Processed(i) =>
                LET r == students[i]
                    p == PhaseNumber(r)
                    missing == /\ p - 1 >= 1
                               /\ \A j \in CurrentContribution(i) :
                                     PhaseNumber(students[j]) # p - 1
                IN  /\ r._missing_previous_phase = Some(missing)
                    /\ ScenarioB(i) => r._missing_previous_phase = Some(TRUE)
                    /\ (Graded /\ missing /\ ~MeetsAtRisk(r)) =>
                          /\ r.grade_status = FLAGGED
                          /\ r.intervention_type = "MISSING_PREVIOUS_PHASE"

\* Scenario B, graded: the week-3 record is FLAGGED with MISSING_PREVIOUS_PHASE.
C9_Witness ==
    /\ Graded
    /\ \E i \in 1..Len(students) :
          /\ Processed(i) /\ ScenarioB(i)
          /\ students[i].intervention_type = "MISSING_PREVIOUS_PHASE"

\* C10: a record whose contribution number differs from that of the record
\* before it in its participant's timeline has new_contribution_detected,
\* contribution_start_week = its week, weeks_on_contribution = 1, no phase
\* change flag, and fresh phase trackers: its phase starts this week and only
\* its own phase counts as seen.
C10_NewContributionResets ==
    Timed =>
        \A i \in 1..Len(students) :
            LET earlier == Earlier(i)
            IN  \A j \in earlier :
                    ( /\ Processed(i)
                      /\ LastOf(j, earlier)
                      /\ students[j].contribution_num # students[i].contribution_num )
                    =>  LET r == students[i]
                        IN  /\ r.new_contribution_detected
                            /\ r.contribution_start_week = r.week
                            /\ r.weeks_on_contribution = 1
                            /\ ~r.phase_changed_this_week
                            /\ r.weeks_in_phase = 1
                            /\ r._illogical_phase_change = Some(FALSE)
                            /\ r._missing_previous_phase = Some(PhaseNumber(r) >= 2)

\* Contribution 1 at Phase 1 then Phase 2 in weeks 1 and 2, contribution 2 at
\* Phase 2 in week 3: Phase 1 of the first contribution no longer counts.
C10_Witness ==
    /\ Timed
    /\ Len(students) = 3
    /\ \A i \in 1..3 : students[i].week = i /\ Processed(i)
    /\ students[1].contribution_num = 1 /\ PhaseNumber(students[1]) = 1
    /\ students[2].contribution_num = 1 /\ PhaseNumber(students[2]) = 2
    /\ students[3].contribution_num = 2 /\ PhaseNumber(students[3]) = 2
    /\ students[3].new_contribution_detected
    /\ students[3].contribution_start_week = 3
    /\ students[3]._missing_previous_phase = Some(TRUE)

---------------------------------------------------------------------------
(* Properties of the derived fields.                                       *)

\* _calculate_derived_fields has run on `students`.
Derived == pc \in {"derived", "graded", "done"}

\* deliverables_expected by phase number, as documented.
ExpectedAtPhase(p) ==
    CASE p = 1 -> 1 [] p = 2 -> 3 [] p = 3 -> 5 [] p = 4 -> 6 [] OTHER -> 0

\* C11: deliverables_expected is 1, 3, 5, 6 at phase numbers 1, 2, 3, 4 and 0
\* at phase number 0, and never decreases with the phase number: of two
\* records the one with the higher phase number expects at least as much.
C11_DeliverablesExpected ==
    Derived =>
        /\ \A r \in Records : r.deliverables_expected = ExpectedAtPhase(PhaseNumber(r))
        /\ \A r1, r2 \in Records :
              PhaseNumber(r1) <= PhaseNumber(r2)
                  => r1.deliverables_expected <= r2.deliverables_expected

\* A table with a Phase-2 and a Phase-4 record, expecting 3 and 6.
C11_Witness ==
    /\ Derived
    /\ \E r1, r2 \in Records :
          /\ PhaseNumber(r1) = 2 /\ r1.deliverables_expected = 3
          /\ PhaseNumber(r2) = 4 /\ r2.deliverables_expected = 6

---------------------------------------------------------------------------
(* Properties of process() as a whole.                                     *)

\* process() has returned.
Returned == pc \in {"done", "failed"}

\* The ProcessingResult returned.
Outcome == TheValue(result)

\* C12: a run on a table without data rows returns a failure result with an
\* error message, no output bytes and zero rows processed; it transforms no
\* record and builds no workbook.
C12_EmptyInputFails ==
    (raw_rows = <<>> /\ pc # "read") =>
        /\ pc = "failed"
        /\ result # NoResult
        /\ ~Outcome.success
        /\ Outcome.error_message # ""
        /\ Outcome.output_data = None
        /\ Outcome.rows_processed = 0
        /\ students = <<>>
        /\ workbook = None

\* The run on an empty table has returned "CSV file is empty".
C12_Witness ==
    /\ raw_rows = <<>>
    /\ pc = "failed"
    /\ result # NoResult
    /\ Outcome.error_message = "CSV file is empty"

\* The stage process() is at can take its step: the table is empty (the
\* failure return), the lookups and the transformation run or raise into the
\* except clause, the engine and the classifier run, the report is written or
\* raises into the except clause.
CanContinue ==
    \/ ENABLED EmptyInput
    \/ pc = "read" /\ raw_rows # <<>> /\ ~TransformRaises(raw_rows)
    \/ ENABLED TransformError
    \/ pc \in {"transformed", "derived"}
    \/ pc = "graded" /\ \A i \in 1..Len(students) : ~IllegalCell(students[i])
    \/ ENABLED WorkbookError

\* C13: process() returns from every stage (no stage is left without a step,
\* so no exception escapes), and what it returns is either success with
\* output bytes and rows_processed = the number of data rows, or failure with
\* a message and no output bytes, whatever was built before the failure.
C13_OneOfTwoOutcomes ==
    /\ ~Returned => (result = NoResult /\ CanContinue)
    /\ Returned => result # NoResult
    /\ pc = "done" =>
          /\ Outcome.success
          /\ Outcome.output_data # None
          /\ Outcome.rows_processed = Len(raw_rows)
          /\ Outcome.error_message = ""
    /\ pc = "failed" =>
          /\ ~Outcome.success
          /\ Outcome.error_message # ""
          /\ Outcome.output_data = None
          /\ Outcome.rows_processed = 0

\* A run that failed while writing the report, after a first row was written.
C13_Witness ==
    /\ pc = "failed"
    /\ Len(students) >= 2
    /\ workbook # None
    /\ Len(TheValue(workbook).master) >= 1
    /\ Outcome.output_data = None

---------------------------------------------------------------------------
(* Properties of identity reconciliation.                                  *)

\* process() has built discord_lookup.
Looked == pc \in {"transformed", "derived", "graded", "done"}

\* The cell of a row in a column, empty when the table has no such column.
Cell(row, column) == IF column \in DOMAIN row THEN row[column] ELSE <<>>

\* The handles, trimmed, of the rows of a table that carry participant `id`
\* and a handle that is not blank, in row order.
HandlesOf(rows, id) ==
    LET carrying == SelectSeq(rows, LAMBDA row :
                        /\ Strip(row.member_id) = id
                        /\ Strip(Cell(row, "discord_username")) # <<>>)
    IN  [k \in 1..Len(carrying) |-> Strip(carrying[k].discord_username)]

Last(seq) == seq[Len(seq)]

\* The two-step rule: the header is one of the candidate names, or has the
\* normalisation (trim, lower case, no "?") of one of them.
Resolves(header, possible_names) ==
    \E k \in 1..Len(possible_names) :
        \/ header = possible_names[k]
        \/ _normalize_header(header) = _normalize_header(possible_names[k])

\* The roster supplied is not UTF-8, has no data rows, or has no column that
\* _find_column takes for the participant id or for the handle.
RosterUnusable ==
    /\ master_data # None
    /\ LET master == TheValue(master_data)
       IN  \/ ~master.decodable
           \/ master.rows = <<>>
           \/ ~Resolves(master.fieldnames.member_id, MASTER_CSV_COLUMNS.member_id)
           \/ ~Resolves(master.fieldnames.discord_username,
                        MASTER_CSV_COLUMNS.discord_username)

\* The rows the roster lookup is built from (none when there is no roster or
\* the roster cannot be used).
RosterRowsGiven ==
    IF master_data = None \/ RosterUnusable THEN <<>> ELSE TheValue(master_data).rows

\* The participant ids of both tables.
IdsGiven ==
    {Strip(raw_rows[i].member_id) : i \in 1..Len(raw_rows)}
    \cup {Strip(RosterRowsGiven[i].member_id) : i \in 1..Len(RosterRowsGiven)}

\* C14: an id with a non-empty handle in the roster maps to the roster's
\* handle (its last one) whatever the submissions table says; an id without
\* one maps to the last non-empty handle the submissions table has for it;
\* no other id is in the lookup.
C14_RosterWins ==
    Looked =>
        /\ DOMAIN discord_lookup \subseteq IdsGiven
        /\ \A id \in IdsGiven :
              LET roster == HandlesOf(RosterRowsGiven, id)
                  submitted == HandlesOf(raw_rows, id)
              IN  IF id # <<>> /\ roster # <<>>
                  THEN id \in DOMAIN discord_lookup /\ discord_lookup[id] = Last(roster)
                  ELSE IF id # <<>> /\ submitted # <<>>
                  THEN id \in DOMAIN discord_lookup /\ discord_lookup[id] = Last(submitted)
                  ELSE id \notin DOMAIN discord_lookup

\* A has two roster handles and a handle of its own in the submissions: the
\* later roster handle is used; B, without a roster handle, has two handles in
\* the submissions: the later one is used.
C14_Witness ==
    /\ Looked
    /\ Len(HandlesOf(RosterRowsGiven, <<"A">>)) = 2
    /\ HandlesOf(raw_rows, <<"A">>) # <<>>
    /\ discord_lookup[<<"A">>] = Last(HandlesOf(RosterRowsGiven, <<"A">>))
    /\ Len(HandlesOf(raw_rows, <<"B">>)) = 2
    /\ HandlesOf(raw_rows, <<"B">>)[1] # HandlesOf(raw_rows, <<"B">>)[2]
    /\ discord_lookup[<<"B">>] = Last(HandlesOf(raw_rows, <<"B">>))

\* C15: with no roster, when some row of a participant (non-empty id) has a
\* non-empty handle, every record of that participant ends with a non-empty
\* handle, and a record whose own handle is empty has the handle of the
\* participant's last row with one (handles compared after trimming).
C15_HandleFilled ==
    (Looked /\ master_data = None) =>
        \A i \in 1..Len(students) :
            LET id == Strip(students[i].member_id)
                known == HandlesOf(raw_rows, id)
            IN  (id # <<>> /\ known # <<>>) =>
                    /\ Strip(students[i].discord_username) # <<>>
                    /\ Strip(Cell(raw_rows[i], "discord_username")) = <<>>
                          => Strip(students[i].discord_username) = Last(known)

---------------------------------------------------------------------------
(* Properties of field coercion.                                           *)

\* _transform_records has run on the rows.
Transformed == pc \in {"transformed", "derived", "graded", "done"}

\* C16: the contribution number of a record is n for the answer
\* "Contribution <n>", 0 for "No Contribution" and 1 for any other answer, and
\* no answer makes the run fail.
C16_ContributionCoercion ==
    /\ (pc = "failed" /\ raw_rows # <<>>) =>
          \E i \in 1..Len(raw_rows) :
              HasRestKey(raw_rows[i]) \/ raw_rows[i].blocker_desc = <<"NUL">>
    /\ Transformed =>
          \A i \in 1..Len(students) :
              LET cell == raw_rows[i].contribution_num
              IN  students[i].contribution_num =
                      IF \E n \in 0..9 : cell = ContributionCell(n)
                      THEN CHOOSE n \in 0..9 : cell = ContributionCell(n)
                      ELSE IF cell = <<"No", " ", "Contribution">> THEN 0
                      ELSE 1

\* The keyword of phase n.
PhaseKeyword(n) ==
    CASE n = 1 -> "selection" [] n = 2 -> "reproduction"
      [] n = 3 -> "implementation" [] n = 4 -> "submission"

\* The answer names phase n: it contains the digit n or, in any letter case,
\* the keyword of phase n.
NamesPhase(cell, n) ==
    \/ Contains(cell, <<Numeral(n)>>)
    \/ Contains(Lower(cell), <<PhaseKeyword(n)>>)

\* The first phase, in the order 1 to 4, that the answer names; 0 when none.
FirstPhaseNamed(cell) ==
    IF \E n \in 1..4 : NamesPhase(cell, n)
    THEN CHOOSE n \in 1..4 : NamesPhase(cell, n) /\ \A m \in 1..(n - 1) : ~NamesPhase(cell, m)
    ELSE 0

\* C17 as stated: the phase of a record is "Phase n" for the first phase n, in
\* the order 1 to 4, whose digit or keyword the answer contains, whatever else
\* it contains; an answer naming no phase is left as it is; the phase number
\* of the record is n, and 0 when no phase is named.
C17_PhaseAsIs ==
    Transformed =>
        \A i \in 1..Len(students) :
            LET cell == raw_rows[i].current_phase
                n == FirstPhaseNamed(cell)
            IN  /\ students[i].current_phase = IF n > 0 THEN PhaseCell(n) ELSE cell
                /\ PhaseNumber(students[i]) = n

\* C17 as amended: the same, except that an answer naming no phase is kept in
\* lower case.
C17_PhaseFirstMatch ==
    Transformed =>
        \A i \in 1..Len(students) :
            LET cell == raw_rows[i].current_phase
                n == FirstPhaseNamed(cell)
            IN  /\ students[i].current_phase = IF n > 0 THEN PhaseCell(n) ELSE Lower(cell)
                /\ PhaseNumber(students[i]) = n

\* An answer with the digit 2 and the keyword of phase 1 has become Phase 1.
C17_Witness ==
    /\ Transformed
    /\ \E i \in 1..Len(students) :
          /\ NamesPhase(raw_rows[i].current_phase, 2)
          /\ Contains(Lower(raw_rows[i].current_phase), <<"selection">>)
          /\ students[i].current_phase = PhaseCell(1)
          /\ PhaseNumber(students[i]) = 1


---------------------------------------------------------------------------
(* Properties of column lookup.                                            *)

\* Both columns of the submissions table resolve under the two-step rule.
SubmissionColumnsResolve ==
    /\ Resolves(fieldnames.member_id, <<CSV_HEADER("member_id")>>)
    /\ Resolves(fieldnames.discord_username, DISCORD_USERNAME_COLUMNS)

\* Both columns of the roster resolve under the two-step rule.
RosterColumnsResolve ==
    /\ master_data # None
    /\ Resolves(TheValue(master_data).fieldnames.member_id, MASTER_CSV_COLUMNS.member_id)
    /\ Resolves(TheValue(master_data).fieldnames.discord_username,
                MASTER_CSV_COLUMNS.discord_username)

\* C18: when the id and the handle headers of the roster are candidate names
\* or differ from one only by surrounding blanks, letter case or a trailing
\* "?", every roster id with a handle is in the lookup with the roster's
\* handle; likewise for the submissions table (no roster given) and the
\* handles of its rows.
C18_ColumnsResolved ==
    Looked =>
        /\ RosterColumnsResolve =>
              \A id \in IdsGiven :
                  (id # <<>> /\ HandlesOf(RosterRowsGiven, id) # <<>>) =>
                      /\ id \in DOMAIN discord_lookup
                      /\ discord_lookup[id] = Last(HandlesOf(RosterRowsGiven, id))
        /\ (master_data = None /\ SubmissionColumnsResolve) =>
              \A id \in IdsGiven :
                  (id # <<>> /\ HandlesOf(raw_rows, id) # <<>>) =>
                      /\ id \in DOMAIN discord_lookup
                      /\ discord_lookup[id] = Last(HandlesOf(raw_rows, id))


---------------------------------------------------------------------------
(* Properties of the timeline type.                                        *)

\* The Compressed condition of a record.
MeetsCompressed(r) == r.weeks_remaining < 3 /\ PhaseNumber(r) < 3

\* The Critical condition of a record.
MeetsCritical(r) == r.weeks_remaining < 2 /\ PhaseNumber(r) < 4

\* C19: every record has weeks_remaining = max(0, 8 - week); its
\* timeline_type is Compressed when weeks_remaining < 3 and phase < 3,
\* otherwise Critical when weeks_remaining < 2 and phase < 4, otherwise
\* Standard; a record meeting both conditions is Compressed.
C19_TimelineType ==
    Derived =>
        \A i \in 1..Len(students) :
            LET r == students[i]
            IN  /\ r.weeks_remaining = (IF r.week >= 8 THEN 0 ELSE 8 - r.week)
                /\ r.timeline_type \in {"Compressed", "Critical", "Standard"}
                /\ (r.timeline_type = "Compressed") = MeetsCompressed(r)
                /\ (r.timeline_type = "Critical") = (MeetsCritical(r) /\ ~MeetsCompressed(r))

\* A record past week 8 (weeks_remaining clamped to 0) with a phase below 3
\* meets both conditions and is Compressed.
C19_Witness ==
    /\ Derived
    /\ \E i \in 1..Len(students) :
          /\ MeetsCompressed(students[i])
          /\ MeetsCritical(students[i])
          /\ students[i].week > 8
          /\ students[i].weeks_remaining = 0
          /\ students[i].timeline_type = "Compressed"


---------------------------------------------------------------------------
(* Properties of the report's views.                                       *)

\* The run has produced the workbook.
Reported == pc = "done" /\ workbook # None

\* The records (positions in `students`) with the given grade_status.
Tier(status) == {i \in 1..Len(students) : students[i].grade_status = status}

\* The view lists exactly the given records, each once.
HoldsExactly(view, records) ==
    /\ Len(view) = Cardinality(records)
    /\ {view[k] : k \in 1..Len(view)} = records

\* The view is in ascending order of rank, records of equal rank in input order.
OrderedBy(view, rank) ==
    \A a, b \in 1..Len(view) :
        a < b => \/ rank[view[a]] < rank[view[b]]
                 \/ rank[view[a]] = rank[view[b]] /\ view[a] < view[b]

\* The place of an AT RISK code in the intervention priority order.
InterventionRank(code) ==
    CASE code = "MISSING_BOTH" -> 1
      [] code = "PHASE_CRITICAL" -> 2
      [] code = "STALLED" -> 3

\* The number of views among the given ones that list record i.
ViewsListing(views, i) ==
    Cardinality({v \in DOMAIN views : \E k \in 1..Len(views[v]) : views[v][k] = i})

\* C20: the at-risk view holds exactly the AT RISK records, ordered
\* MISSING_BOTH, PHASE_CRITICAL, STALLED; the flagged view exactly the FLAGGED
\* records by weeks_in_phase descending; the on-track view exactly the ON
\* TRACK records by week descending; records with equal keys keep their input
\* order; every record is in the master view and in exactly one tier view.
C20_TierViews ==
    Reported =>
        LET wb == TheValue(workbook)
            n == Len(students)
        IN  /\ HoldsExactly(wb.at_risk, Tier(AT_RISK))
            /\ OrderedBy(wb.at_risk,
                         [i \in Tier(AT_RISK) |-> InterventionRank(students[i].intervention_type)])
            /\ HoldsExactly(wb.flagged, Tier(FLAGGED))
            /\ OrderedBy(wb.flagged, [i \in 1..n |-> 0 - students[i].weeks_in_phase])
            /\ HoldsExactly(wb.on_track, Tier(ON_TRACK))
            /\ OrderedBy(wb.on_track, [i \in 1..n |-> 0 - students[i].week])
            /\ HoldsExactly(wb.master, 1..n)
            /\ \A i \in 1..n :
                  ViewsListing(<<wb.at_risk, wb.flagged, wb.on_track>>, i) = 1

\* A report of three FLAGGED records in which the third, with the most weeks
\* in its phase, is listed first and the two others, equal in weeks_in_phase,
\* follow in input order.
C20_Witness ==
    /\ Reported
    /\ Len(students) = 3
    /\ TheValue(workbook).flagged = <<3, 1, 2>>
    /\ students[1].weeks_in_phase = students[2].weeks_in_phase
    /\ students[3].weeks_in_phase > students[1].weeks_in_phase
    /\ TheValue(workbook).master = <<1, 2, 3>>


---------------------------------------------------------------------------
(* Properties of the phase trackers.                                       *)

\* j is the record just before i in the timeline of i's participant.
Precedes(j, i) == LastOf(j, Earlier(i))

\* C21: on a record that follows, in its participant's timeline, a record of
\* the same contribution number: when the two phase numbers differ,
\* phase_changed_this_week is true, weeks_in_phase is 1 (the phase starts this
\* week) and illogical_phase_change is true exactly when the new phase number
\* is the lower one; when they are equal, both flags are false.
C21_PhaseTransition ==
    Timed =>
        \A i \in 1..Len(students) :
            \A j \in Earlier(i) :
                ( /\ Processed(i)
                  /\ Precedes(j, i)
                  /\ students[j].contribution_num = students[i].contribution_num )
                =>  LET r == students[i]
                        new == PhaseNumber(r)
                        previous == PhaseNumber(students[j])
                    IN  IF new # previous
                        THEN /\ r.phase_changed_this_week
                             /\ r.weeks_in_phase = 1
                             /\ r._illogical_phase_change = Some(new < previous)
                        ELSE /\ ~r.phase_changed_this_week
                             /\ r._illogical_phase_change = Some(FALSE)

\* One contribution: Phase 2 in week 1, back to Phase 1 in week 2 (an
\* illogical change), on to Phase 3 in week 3 (a change that is not).
C21_Witness ==
    /\ Timed
    /\ Len(students) = 3
    /\ \A i \in 1..3 : Processed(i) /\ students[i].week = i
    /\ students[1].contribution_num = students[3].contribution_num
    /\ students[2].contribution_num = students[3].contribution_num
    /\ PhaseNumber(students[1]) = 2
    /\ PhaseNumber(students[2]) = 1
    /\ PhaseNumber(students[3]) = 3
    /\ students[2].phase_changed_this_week
    /\ students[2]._illogical_phase_change = Some(TRUE)
    /\ students[3].phase_changed_this_week
    /\ students[3]._illogical_phase_change = Some(FALSE)
    /\ students[3].weeks_in_phase = 1


\* The records of the current phase up to and including i: the records j of
\* the current contribution with no change of phase number from j to i.
CurrentPhase(i) ==
    LET current == CurrentContribution(i)
    IN  {j \in current :
            \A k \in current :
                (k = j \/ Before(j, k))
                    => PhaseNumber(students[k]) = PhaseNumber(students[i])}

\* The week of the first record of a set of records of one timeline.
StartWeek(positions) ==
    LET first == CHOOSE j \in positions : \A k \in positions : k = j \/ Before(j, k)
    IN  students[first].week

\* C22: weeks_in_phase = max(1, week - phase_start_week + 1), phase_start_week
\* being the week of the most recent record, up to this one, at which the
\* phase changed or the contribution started; weeks_on_contribution =
\* week - contribution_start_week + 1, contribution_start_week being the week
\* of the first record of the current contribution.
C22_WeeksCounted ==
    Timed =>
        \A i \in 1..Len(students) :
            Processed(i) =>
                LET r == students[i]
                    phase_start_week == StartWeek(CurrentPhase(i))
                    contribution_start_week == StartWeek(CurrentContribution(i))
                IN  /\ r.weeks_in_phase = Max(1, r.week - phase_start_week + 1)
                    /\ r.contribution_start_week = contribution_start_week
                    /\ r.weeks_on_contribution = r.week - contribution_start_week + 1

\* A third week on a contribution, the second in its phase: the phase changed
\* at week 2.
C22_Witness ==
    /\ Timed
    /\ \E i \in 1..Len(students) :
          /\ Processed(i)
          /\ students[i].week = 3
          /\ StartWeek(CurrentPhase(i)) = 2
          /\ StartWeek(CurrentContribution(i)) = 1
          /\ students[i].weeks_in_phase = 2
          /\ students[i].weeks_on_contribution = 3


---------------------------------------------------------------------------
(* Properties of the cumulative submission counter.                        *)

\* The number of true submission flags, each variant counted, over a set of
\* records.
FlagsOver(positions) ==
    Cardinality({j \in positions : students[j].wed_submitted})
    + Cardinality({j \in positions : students[j].sun_submitted})

---------------------------------------------------------------------------
(* Properties of the consecutive miss count.                               *)

\* j comes before i in the order of the miss pass: by week, a Wednesday record
\* before the others of its week, then input order.
BeforeInMissPass(j, i) ==
    LET a == submission_sort_key(students[j])
        b == submission_sort_key(students[i])
    IN  \/ a[1] < b[1]
        \/ a[1] = b[1] /\ a[2] < b[2]
        \/ a = b /\ j < i

\* i is the first record of its week in the miss pass: the record that claims
\* the gap before that week.
ClaimsGap(i) ==
    \A j \in InWeek(i, students[i].week) : j = i \/ BeforeInMissPass(i, j)

\* The latest week before i's in which the participant has a record with the
\* Sunday flag; 0 when there is none.
LastSundayWeek(i) ==
    LET weeks == {students[j].week : j \in {k \in SameMember(i) :
                      /\ students[k].week < students[i].week
                      /\ students[k].week >= 1
                      /\ students[k].sun_submitted}}
    IN  IF weeks = {} THEN 0 ELSE CHOOSE w \in weeks : \A v \in weeks : v <= w

\* C24: on the record that claims its gap, consecutive_misses is the number of
\* weeks strictly between the latest earlier week in which the participant
\* has a record with the Sunday flag (0 if none) and the record's week: weeks
\* without a record and weeks without the flag count, a week with a flagged
\* record does not and ends the scan.
C24_MissesSinceLastSunday ==
    Timed =>
        \A i \in 1..Len(students) :
            (Processed(i) /\ ClaimsGap(i)) =>
                students[i].consecutive_misses
                    = Cardinality({w \in 1..(students[i].week - 1) : w > LastSundayWeek(i)})


\* The weeks that the miss count of record i stands for: the consecutive_misses
\* weeks just before its own.
WeeksCounted(i) ==
    {w \in 1..(students[i].week - 1) : w >= students[i].week - students[i].consecutive_misses}

\* C25: the misses of a gap are attributed to the first record, in the order
\* of the miss pass, that claims it: the later records of that week get 0,
\* and no missed week is counted on two records of a participant.
C25_GapCountedOnce ==
    Timed =>
        \A i \in 1..Len(students) :
            Processed(i) =>
                /\ ~ClaimsGap(i) => students[i].consecutive_misses = 0
                /\ \A j \in SameMember(i) :
                      j # i => WeeksCounted(i) \cap WeeksCounted(j) = {}


---------------------------------------------------------------------------
(* Properties of issue tracking.                                           *)

\* The issue URL of a record, trimmed.
IssueOf(i) == Strip(students[i].issue_url)

\* The earlier records of the current contribution that carry an issue URL
\* (a change of contribution number resets the baseline).
Tracked(i) == {j \in CurrentContribution(i) \ {i} : IssueOf(j) # <<>>}

\* The previously tracked issue URL at record i: that of the last such record.
TrackedIssue(i) == IssueOf(CHOOSE j \in Tracked(i) : LastOf(j, Tracked(i)))

\* C26: issue_changed is true on a record exactly when its issue URL and the
\* previously tracked issue URL are both non-empty and differ;
\* issue_swap_detected is true only when issue_changed is true and the
\* contribution number is that of the previous record.
C26_IssueChanged ==
    Timed =>
        \A i \in 1..Len(students) :
            Processed(i) =>
                LET r == students[i]
                IN  /\ r.issue_changed =
                          ( /\ IssueOf(i) # <<>>
                            /\ Tracked(i) # {}
                            /\ IssueOf(i) # TrackedIssue(i) )
                    /\ r.issue_swap_detected =>
                          /\ r.issue_changed
                          /\ \E j \in Earlier(i) :
                                /\ Precedes(j, i)
                                /\ students[j].contribution_num = r.contribution_num

\* A URL at week 1, none at week 2, another URL at week 3, all on one
\* contribution: the week-3 record has issue_changed and issue_swap_detected.
C26_Witness ==
    /\ Timed
    /\ Len(students) = 3
    /\ \A i \in 1..3 : Processed(i) /\ students[i].week = i
    /\ IssueOf(1) # <<>> /\ IssueOf(2) = <<>> /\ IssueOf(3) # <<>>
    /\ IssueOf(3) # IssueOf(1)
    /\ ~students[2].issue_changed
    /\ students[3].issue_changed
    /\ students[3].issue_swap_detected


\* The week of the last record of `positions` on which issue_changed is true;
\* 0 when there is none.
LastChangeWeek(positions) ==
    LET changes == {j \in positions : students[j].issue_changed}
    IN  IF changes = {} THEN 0
        ELSE students[CHOOSE j \in changes : LastOf(j, changes)].week

\* C27 as stated: issue_change_week of a record is the week of the most recent
\* record of the participant's timeline, up to and including it, on which
\* issue_changed is true, and 0 before the participant's first issue change.
C27_IssueChangeWeek ==
    Timed =>
        \A i \in 1..Len(students) :
            Processed(i) =>
                students[i].issue_change_week = LastChangeWeek(Earlier(i) \cup {i})

\* C27 as amended: the same within the current contribution: the most recent
\* record of the current contribution, up to and including this one, on which
\* issue_changed is true, and 0 when it has none (a change of contribution
\* number sets the week back to 0).
C27_IssueChangeWeekInContribution ==
    Timed =>
        \A i \in 1..Len(students) :
            Processed(i) =>
                students[i].issue_change_week = LastChangeWeek(CurrentContribution(i))

\* The issue changed at week 2; the week-3 record of the same contribution,
\* with the same URL or none, still has issue_change_week 2.
C27_Witness ==
    /\ Timed
    /\ Len(students) = 3
    /\ \A i \in 1..3 : Processed(i) /\ students[i].week = i
    /\ students[2].issue_changed
    /\ ~students[3].issue_changed
    /\ students[3].contribution_num = students[2].contribution_num
    /\ students[1].issue_change_week = 0
    /\ students[2].issue_change_week = 2
    /\ students[3].issue_change_week = 2


\* The calls of calculate_next_run for a 'minutely' schedule.
MinutelyCalls == { c \in last_calculation : c.type = "minutely" }

\* C29: for a 'minutely' schedule with interval N, calculate_next_run returns a
\* time strictly after now, with seconds zero, whose minute of the hour is a
\* multiple of N, also when the next aligned minute rolls over past the hour.
C29_MinutelyAligned ==
    \A c \in MinutelyCalls :
        /\ c.result > c.now
        /\ SecondOf(c.result) = 0
        /\ MinuteOf(c.result) % c.config.minutes = 0

\* The part of C29 that the rollover leaves intact: later than now, on a whole
\* minute, and aligned whenever N divides the hour.
C29_AlignedWhenDividesHour ==
    \A c \in MinutelyCalls :
        /\ c.result > c.now
        /\ SecondOf(c.result) = 0
        /\ 60 % c.config.minutes = 0 => MinuteOf(c.result) % c.config.minutes = 0


\* The schedule the loop is looking at: the head of the tick's snapshot.
Current == Sched(Head(loop.pending))

\* The loop is at a schedule that is active, due at the tick time and not sent
\* within the last 30 seconds.
AtDueSchedule ==
    /\ loop.pc = "checking"
    /\ loop.pending # <<>>
    /\ Due(Current, loop.now)
    /\ ~is_recently_sent(Current.last_sent, clock)

\* The step sends the message of the schedule the loop is at, once.
SendsCurrent ==
    /\ sent' = Append(sent, sent'[Len(sent')])
    /\ sent'[Len(sent')].id = Head(loop.pending)
    /\ sent'[Len(sent')].tick = loop.now

\* The step ends the send: the schedule's dict then has last_sent at the tick
\* time and a next_run strictly later than the tick time, and nothing more is
\* sent.
SettlesCurrent ==
    LET schedule_id == Head(loop.pending)
        after == IF schedule_id \in DOMAIN scheduled_messages'
                 THEN scheduled_messages'[schedule_id]
                 ELSE loop'.detached[schedule_id]
    IN  /\ after.last_sent = Some(loop.now)
        /\ after.next_run # None
        /\ TheValue(after.next_run) > loop.now
        /\ sent' = sent

\* No schedule is in the log twice for one tick or twice for one due time, and
\* every schedule in the log was active and due at its tick.
SentLogSound ==
    /\ \A i \in 1..Len(sent) :
         /\ sent[i].active
         /\ sent[i].due # None
         /\ TheValue(sent[i].due) <= sent[i].tick
    /\ \A i, j \in 1..Len(sent) :
         (i < j /\ sent[i].id = sent[j].id) =>
             /\ sent[i].tick # sent[j].tick
             /\ sent[i].due # sent[j].due

\* C28: in the scheduler loop an active schedule that is due (tick time >=
\* next_run) and was not sent within the last 30 seconds is sent once, its
\* last_sent becomes the tick time and its next_run a time strictly later than
\* the tick time; no schedule is sent twice in one tick or twice for the same
\* due time, and an inactive schedule or one without next_run is never sent.
C28_SentOncePerDueTime ==
    /\ []SentLogSound
    /\ [][AtDueSchedule => SendsCurrent]_vars
    /\ [][(loop.pc = "sending" /\ loop'.pc # "sending") => SettlesCurrent]_vars

\* C28 happens: one schedule has been sent in two ticks, and the loop has
\* also passed over a schedule that was inactive or had no next_run.
C28_Witness ==
    /\ loop.pc = "sleeping"
    /\ \E i, j \in 1..Len(sent) : i < j /\ sent[i].id = sent[j].id
    /\ \E k \in DOMAIN scheduled_messages :
         /\ ~scheduled_messages[k].active \/ scheduled_messages[k].next_run = None
         /\ \A i \in 1..Len(sent) : sent[i].id # k


---------------------------------------------------------------------------
(* Properties of the timeline type under the classifier.                   *)

\* C30: every record whose timeline_type is not Standard is graded AT RISK
\* (a Compressed record has week >= 6 and phase <= 2, a Critical record has
\* weeks_remaining < 2 and phase < 4), so no record is assigned the code
\* TIMELINE_COMPRESSED.
C30_NonStandardAtRisk ==
    Graded =>
        \A i \in 1..Len(students) :
            LET r == students[i]
            IN  /\ r.timeline_type = "Compressed" =>
                       r.week >= 6 /\ PhaseNumber(r) <= 2
                /\ r.timeline_type = "Critical" =>
                       r.weeks_remaining < 2 /\ PhaseNumber(r) < 4
                /\ r.timeline_type # "Standard" => r.grade_status = AT_RISK
                /\ r.intervention_type # "TIMELINE_COMPRESSED"

\* A graded table holds a Compressed record in week 6 with a submission and
\* no other finding than its phase, graded AT RISK, or a Critical record with
\* a submission graded AT RISK.
C30_Witness ==
    /\ Graded
    /\ \E i \in 1..Len(students) :
          LET r == students[i]
          IN  /\ r.timeline_type \in {"Compressed", "Critical"}
              /\ r.wed_submitted \/ r.sun_submitted
              /\ r.timeline_type = "Compressed" => r.week = 6
              /\ r.grade_status = AT_RISK
              /\ r.intervention_type = "PHASE_CRITICAL"


---------------------------------------------------------------------------
(* Properties of the fields no column feeds.                               *)

\* C31: no input column feeds days_since_commit, so it is 0 on every record
\* that process produces and the code NO_ACTIVITY is never assigned.
C31_NoActivityNeverAssigned ==
    Transformed =>
        \A i \in 1..Len(students) :
            /\ students[i].days_since_commit = 0
            /\ students[i].intervention_type # "NO_ACTIVITY"

\* A graded record that is not AT RISK and meets no earlier FLAGGED rule has
\* passed the days_since_commit test and is ON TRACK.
C31_Witness ==
    /\ Graded
    /\ \E i \in 1..Len(students) :
          /\ students[i].grade_status = ON_TRACK
          /\ students[i].intervention_type = ""
          /\ students[i].wed_submitted \/ students[i].sun_submitted


---------------------------------------------------------------------------
(* Properties of the submission flags.                                     *)

\* The submission-type cell of the row of record i.
SubmissionType(i) == raw_rows[i]._submission_type

\* What record i adds to the cumulative submission count: the count on it less
\* the count on the record before it in its participant's timeline.
AddedToCount(i) ==
    students[i].submission_count_cumulative
    - (IF Earlier(i) = {} THEN 0
       ELSE students[CHOOSE j \in Earlier(i) : Precedes(j, i)].submission_count_cumulative)

\* C32: after transformation no record has both submission flags true: a
\* submission type that mentions Wednesday sets only the Wednesday flag, also
\* when it mentions Sunday too; one that mentions only Sunday sets only the
\* Sunday flag; any other sets neither; so each record adds 0 or 1, never 2,
\* to the cumulative submission count.
C32_OneFlagPerRecord ==
    /\ Transformed =>
         \A i \in 1..Len(students) :
             LET r == students[i]
                 wednesday == Contains(SubmissionType(i), <<"Wednesday">>)
                 sunday == Contains(SubmissionType(i), <<"Sunday">>)
             IN  /\ ~(r.wed_submitted /\ r.sun_submitted)
                 /\ r.wed_submitted = wednesday
                 /\ r.sun_submitted = (sunday /\ ~wednesday)
    /\ Timed =>
         \A i \in 1..Len(students) :
             Processed(i) =>
                 AddedToCount(i) = (IF students[i].wed_submitted \/ students[i].sun_submitted
                                    THEN 1 ELSE 0)

\* A timeline holds a record whose submission type names both days, Sunday
\* first: it has the Wednesday flag only and adds 1 to the count of the record
\* before it.
C32_Witness ==
    /\ Timed
    /\ \E i \in 1..Len(students) :
          /\ Processed(i)
          /\ Earlier(i) # {}
          /\ SubmissionType(i) = <<"Sunday", " and ", "Wednesday">>
          /\ students[i].wed_submitted
          /\ ~students[i].sun_submitted
          /\ AddedToCount(i) = 1


---------------------------------------------------------------------------
(* Properties of the first record of a contribution.                       *)

\* Record i opens a contribution: it is the first of its participant's
\* timeline, or the record before it has another contribution number.
StartsContribution(i) ==
    \/ Earlier(i) = {}
    \/ \E j \in Earlier(i) :
          /\ Precedes(j, i)
          /\ students[j].contribution_num # students[i].contribution_num

\* The phase start estimated for a first record: contribution_start_week +
\* (phase_number - 1), clamped into [contribution_start_week, week].
EstimatedPhaseStart(r) ==
    Min(r.week, Max(r.contribution_start_week,
                    r.contribution_start_week + (PhaseNumber(r) - 1)))

\* C33: the first record of every contribution has weeks_in_phase = 1,
\* weeks_on_contribution = 1 and phase_changed_this_week = false whatever its
\* phase number: contribution_start_week is the record's own week, so the
\* clamped estimate of the phase start is that week.
C33_FirstRecordOfContribution ==
    Timed =>
        \A i \in 1..Len(students) :
            (Processed(i) /\ StartsContribution(i)) =>
                LET r == students[i]
                IN  /\ r.contribution_start_week = r.week
                    /\ EstimatedPhaseStart(r) = r.week
                    /\ r.weeks_in_phase = 1
                    /\ r.weeks_on_contribution = 1
                    /\ ~r.phase_changed_this_week

\* A participant opens a second contribution, in a later week than the first
\* and in a phase above 1.
C33_Witness ==
    /\ Timed
    /\ \E i \in 1..Len(students) :
          /\ Processed(i)
          /\ StartsContribution(i)
          /\ \E j \in Earlier(i) : students[j].week < students[i].week
          /\ PhaseNumber(students[i]) > 1
          /\ students[i].weeks_in_phase = 1
          /\ students[i].weeks_on_contribution = 1


---------------------------------------------------------------------------
(* Bounds of the week counters.                                            *)

\* C34: on every record the timeline engine processes, contribution_start_week
\* <= week, weeks_on_contribution >= 1 and 1 <= weeks_in_phase <=
\* weeks_on_contribution: the phase starts no earlier than the contribution
\* and no later than the record's week.
C34_WeekCountersBounded ==
    Timed =>
        \A i \in 1..Len(students) :
            Processed(i) =>
                LET r == students[i]
                IN  /\ r.contribution_start_week <= r.week
                    /\ r.weeks_on_contribution >= 1
                    /\ r.weeks_in_phase >= 1
                    /\ r.weeks_in_phase <= r.weeks_on_contribution

\* A record two weeks into its contribution and one week into its phase, and
\* a first record whose phase is not recognised (phase number 0).
C34_Witness ==
    /\ Timed
    /\ \E i \in 1..Len(students) :
          /\ Processed(i)
          /\ students[i].weeks_on_contribution > students[i].weeks_in_phase
    /\ \E i \in 1..Len(students) :
          /\ Processed(i)
          /\ StartsContribution(i)
          /\ PhaseNumber(students[i]) = 0


---------------------------------------------------------------------------
(* Properties of the issue swap flag.                                      *)

\* C35: on every record issue_swap_detected equals issue_changed, and neither
\* is true on a record with new_contribution_detected or on the first record
\* of a participant: a contribution change clears the tracked issue URL before
\* the comparison, so no issue change is reported across a contribution
\* boundary.
C35_SwapEqualsChanged ==
    Timed =>
        \A i \in 1..Len(students) :
            LET r == students[i]
            IN  /\ r.issue_swap_detected = r.issue_changed
                /\ (r.new_contribution_detected \/ (Processed(i) /\ Earlier(i) = {})) =>
                       ~r.issue_changed /\ ~r.issue_swap_detected

\* A record opens a new contribution with an issue URL other than the one of
\* the record before it and reports no change, and a record within a
\* contribution reports a change and a swap.
C35_Witness ==
    /\ Timed
    /\ \E i \in 1..Len(students) :
          /\ students[i].new_contribution_detected
          /\ students[i].issue_url # <<>>
          /\ \E j \in Earlier(i) :
                /\ Precedes(j, i)
                /\ students[j].issue_url # <<>>
                /\ students[j].issue_url # students[i].issue_url
          /\ ~students[i].issue_changed
    /\ \E i \in 1..Len(students) :
          students[i].issue_changed /\ students[i].issue_swap_detected


---------------------------------------------------------------------------
(* Properties of the miss count within one week.                           *)

\* The records of i's participant in i's week that carry a miss count.
CountedInWeek(i) ==
    {j \in InWeek(i, students[i].week) : students[j].consecutive_misses > 0}

\* C36: among the records of one participant with the same week number at
\* most one has consecutive_misses > 0, and it is the first of them in the
\* order (week, Wednesday before Sunday); the others have 0.
C36_OneCountPerWeek ==
    Timed =>
        \A i \in 1..Len(students) :
            Processed(i) =>
                /\ Cardinality(CountedInWeek(i)) <= 1
                /\ \A j \in CountedInWeek(i) :
                      \A k \in InWeek(i, students[i].week) :
                          k = j \/ BeforeInMissPass(j, k)

\* A week with two records, the Sunday record first in the input: the
\* Wednesday record carries the miss count, the Sunday record has 0.
C36_Witness ==
    /\ Timed
    /\ \E i, j \in 1..Len(students) :
          /\ Processed(i)
          /\ j \in InWeek(i, students[i].week)
          /\ j < i
          /\ students[i].wed_submitted
          /\ students[j].sun_submitted
          /\ students[i].consecutive_misses > 0
          /\ students[j].consecutive_misses = 0


---------------------------------------------------------------------------
(* Properties of the records without a participant id.                     *)

\* The positions of the records the timeline engine processes, ascending.
ProcessedPositions ==
    SelectSeq([i \in 1..Len(students) |-> i], LAMBDA i : Processed(i))

\* The rows of the records the timeline engine processes.
ProcessedRows == [k \in 1..Len(ProcessedPositions) |-> raw_rows[ProcessedPositions[k]]]

\* Record r has the derived state of a fresh record.
DefaultDerivedState(r) ==
    /\ r.weeks_in_phase = 1
    /\ r.weeks_on_contribution = 1
    /\ r.contribution_start_week = 1
    /\ r.submission_count_cumulative = 0
    /\ r.consecutive_misses = 0
    /\ ~r.phase_changed_this_week
    /\ ~GetAttr(r._illogical_phase_change)
    /\ ~GetAttr(r._missing_previous_phase)
    /\ ~r.issue_changed
    /\ ~r.issue_swap_detected
    /\ ~r.new_contribution_detected
    /\ r.issue_change_week = 0
    /\ r.issue_url_previous_week = <<>>

\* C37: a record whose participant id is blank is never processed by the
\* timeline engine: it keeps the default derived state, it changes no derived
\* field of another record (the other records are what the run on the table
\* without it gives), and it is still classified and counted in
\* rows_processed.
C37_BlankIdNotProcessed ==
    /\ Derived =>
         \A i \in 1..Len(students) :
             ~Processed(i) => DefaultDerivedState(students[i])
    /\ Timed =>
         LET alone == StudentsFor(ProcessedRows)
         IN  \A k \in 1..Len(ProcessedPositions) :
                 students[ProcessedPositions[k]] = alone[k]
    /\ pc \in {"graded", "done"} =>
         \A i \in 1..Len(students) :
             ~Processed(i) => students[i] = GradeStatus(students[i])
    /\ pc = "done" => Outcome.rows_processed = Len(students)

\* A finished run on a table with a record without a participant id, FLAGGED
\* for its deliverables, between two records of a participant.
C37_Witness ==
    /\ pc = "done"
    /\ Outcome.success
    /\ \E i \in 1..Len(students) :
          /\ ~Processed(i)
          /\ students[i].grade_status = FLAGGED
          /\ \E j, k \in 1..Len(students) :
                j < i /\ i < k /\ Processed(j) /\ Processed(k)


---------------------------------------------------------------------------
(* Properties of the handle of a record.                                   *)

\* The handle cell of the row of record i, empty when the row has none.
OwnHandle(i) ==
    IF "discord_username" \in DOMAIN raw_rows[i] THEN raw_rows[i].discord_username
    ELSE <<>>

\* The lookup has a handle for the participant of record i.
InLookup(i) ==
    /\ students[i].member_id # <<>>
    /\ Strip(students[i].member_id) \in DOMAIN discord_lookup

\* C38: a record whose own row carries a non-empty handle keeps that handle:
\* the lookup is applied only to a record whose handle is empty and whose
\* participant id is not, so a roster entry never replaces a differing handle
\* of the row, and a record without a lookup entry keeps an empty handle.
C38_RowHandleKept ==
    Transformed =>
        \A i \in 1..Len(students) :
            /\ OwnHandle(i) # <<>> => students[i].discord_username = OwnHandle(i)
            /\ (OwnHandle(i) = <<>> /\ InLookup(i)) =>
                   students[i].discord_username = discord_lookup[Strip(students[i].member_id)]
            /\ (OwnHandle(i) = <<>> /\ ~InLookup(i)) => students[i].discord_username = <<>>

\* The transformation reads the handle column of the table: its header is the
\* form's, exactly or after normalisation.
HandleColumnRead ==
    \A i \in 1..Len(raw_rows) :
        OwnHandle(i) # <<>> =>
            _get_value_flexible(raw_rows[i], CSV_HEADER("discord_username")) # None

\* C38 restricted to the tables whose handle column the transformation reads.
C38_RowHandleKeptUnderFormHeader == HandleColumnRead => C38_RowHandleKept


\* C39: a roster that is undecodable, has no data rows, or lacks an id or a
\* handle column never fails the run: the primary lookup is empty, the lookup
\* used is the one of the submissions table alone, and process() returns a
\* successful result.
C39_UnusableRosterIgnored ==
    (RosterUnusable /\ raw_rows # <<>>) =>
        /\ _build_master_discord_lookup(TheValue(master_data)) = <<>>
        /\ pc # "failed"
        /\ Looked => discord_lookup = _build_discord_lookup(raw_rows)
        /\ pc = "done" => Outcome.success

\* A roster that is not UTF-8 names A and B; the run has ended successfully,
\* A's records carry the handles of their rows and B's has none.
C39_Witness ==
    /\ pc = "done"
    /\ master_data # None
    /\ ~TheValue(master_data).decodable
    /\ TheValue(master_data).rows # <<>>
    /\ Outcome.success
    /\ discord_lookup = (<<"A">> :> <<"annie">>)
    /\ \E i \in 1..Len(students) :
          students[i].member_id = <<"B">> /\ students[i].discord_username = <<>>


---------------------------------------------------------------------------
(* Properties of the cancel commands.                                      *)

\* The ids that cancel_schedule or cancel_all_schedules has removed: ids are
\* issued once, and nothing else removes a schedule.
Cancelled == (1..issued) \ DOMAIN scheduled_messages

\* The step begins a send of a schedule that has been cancelled.
SendsCancelled ==
    /\ sent' # sent
    /\ sent'[Len(sent')].id \in Cancelled

\* A cancelled schedule is in scheduled_messages again after the step (the
\* saved file is written from scheduled_messages by every handler that changes
\* it and by the loop after every send).
RestoresCancelled == \E schedule_id \in Cancelled : schedule_id \in DOMAIN scheduled_messages'

\* C40: once cancel_schedule or cancel_all_schedules has removed a schedule,
\* its message is never sent afterwards and the schedule never reappears in
\* scheduled_messages or in the saved file, even when the cancel is handled
\* while the loop is suspended in an await in the middle of a tick that had
\* already taken the schedule into its snapshot as due.
C40_CancelIsFinal == [][~SendsCancelled /\ ~RestoresCancelled]_vars

\* The part of C40 about scheduled_messages and the saved file.
C40_CancelledStaysRemoved == [][~RestoresCancelled]_vars

===========================================================================
